---------------------------- MODULE Spec2Model ----------------------------
(***************************************************************************)
(* Model of the Onshape export tool (yekta/onshape-tools).                 *)
(*                                                                         *)
(* The export request handler POST of src/app/api/onshape/export/route.ts  *)
(* and the helpers of src/app/api/onshape/export/helpers.ts.  The provider *)
(* (cad.onshape.com) is the environment: every provider request is one     *)
(* action whose response is chosen nondeterministically.                   *)
(*                                                                         *)
(* Strings are sequences of one-character strings, so that concatenation,  *)
(* case conversion, endsWith and includes are computed as the code does.   *)
(***************************************************************************)
EXTENDS Integers, Sequences, FiniteSets, TLC

(***************************************************************************)
(* Strings                                                                 *)
(***************************************************************************)
UpperChars == <<"A","B","C","D","E","F","G","H","I","J","K","L","M",
                "N","O","P","Q","R","S","T","U","V","W","X","Y","Z">>
LowerChars == <<"a","b","c","d","e","f","g","h","i","j","k","l","m",
                "n","o","p","q","r","s","t","u","v","w","x","y","z">>
DigitChars == <<"0","1","2","3","4","5","6","7","8","9">>

\* String.prototype.toLowerCase / toUpperCase, one character
ToLowerChar(c) ==
  IF \E i \in 1..Len(UpperChars) : UpperChars[i] = c
    THEN LowerChars[CHOOSE i \in 1..Len(UpperChars) : UpperChars[i] = c]
    ELSE c

ToUpperChar(c) ==
  IF \E i \in 1..Len(LowerChars) : LowerChars[i] = c
    THEN UpperChars[CHOOSE i \in 1..Len(LowerChars) : LowerChars[i] = c]
    ELSE c

toLowerCase(s) == [i \in 1..Len(s) |-> ToLowerChar(s[i])]

toUpperCase(s) == [i \in 1..Len(s) |-> ToUpperChar(s[i])]

\* String.prototype.endsWith
endsWith(s, suffix) ==
  /\ Len(suffix) <= Len(s)
  /\ SubSeq(s, Len(s) - Len(suffix) + 1, Len(s)) = suffix

\* String.prototype.startsWith
startsWith(s, prefix) ==
  /\ Len(prefix) <= Len(s)
  /\ SubSeq(s, 1, Len(prefix)) = prefix

\* String.prototype.includes
includes(s, sub) ==
  \E i \in 0..(Len(s) - Len(sub)) : SubSeq(s, i + 1, i + Len(sub)) = sub

\* String(n) for a non-negative integer n
RECURSIVE NatToString(_)
NatToString(n) ==
  IF n < 10 THEN <<DigitChars[n + 1]>>
  ELSE NatToString(n \div 10) \o <<DigitChars[(n % 10) + 1]>>

\* Array.prototype.join
RECURSIVE join(_, _)
join(parts, sep) ==
  IF Len(parts) = 0 THEN <<>>
  ELSE IF Len(parts) = 1 THEN parts[1]
  ELSE parts[1] \o sep \o join(Tail(parts), sep)

\* Array.prototype.filter over a sequence, keeping the order
RECURSIVE SelectSeqIdx(_, _, _)
SelectSeqIdx(s, keep, i) ==
  IF i > Len(s) THEN <<>>
  ELSE (IF keep[i] THEN <<s[i]>> ELSE <<>>) \o SelectSeqIdx(s, keep, i + 1)

(***************************************************************************)
(* Values of a configuration option: string | number                       *)
(***************************************************************************)
NumVal(n) == [t |-> "number", n |-> n, s |-> <<>>]
StrVal(s) == [t |-> "string", n |-> 0, s |-> s]

\* String(v) for v : string | number
String(v) == IF v.t = "number" THEN NatToString(v.n) ELSE v.s

(***************************************************************************)
(* helpers.ts                                                              *)
(***************************************************************************)
\* variant: only the first value of an array is appended
FlatMapAppendFirst(acc, arr) ==
  IF Len(arr) = 0 THEN <<>>
  ELSE [j \in 1..Len(acc) |-> Append(acc[j], arr[1])]

\* cartesianProduct: reduce over the arrays, flatMap over the accumulator
RECURSIVE FlatMapAppend(_, _)
FlatMapAppend(acc, arr) ==
  IF Len(acc) = 0 THEN <<>>
  ELSE [j \in 1..Len(arr) |-> Append(acc[1], arr[j])]
         \o FlatMapAppend(Tail(acc), arr)

RECURSIVE cartesianReduce(_, _)
cartesianReduce(acc, arrays) ==
  IF Len(arrays) = 0 THEN acc
  ELSE cartesianReduce(FlatMapAppend(acc, arrays[1]), Tail(arrays))

cartesianProduct(arrays) == cartesianReduce(<< <<>> >>, arrays)

\* buildConfigPairs: one record per option, positionally aligned with combo
buildConfigPairs(options, combo) ==
  [i \in 1..Len(options) |->
     [parameterId        |-> options[i].key,
      parameterName      |-> IF options[i].hasKeyDisplay
                               THEN options[i].keyDisplay
                               ELSE options[i].key,
      parameterValue     |-> IF combo[i].t = "number"
                               THEN String(combo[i]) \o
                                    (IF Len(options[i].unit) > 0
                                       THEN <<" ">> \o options[i].unit
                                       ELSE <<>>)
                               ELSE String(combo[i]),
      parameterBareValue |-> String(combo[i])]]

\* variant: the tag is built from the value with its unit
humanConfigTagWithUnit(pairs) ==
  IF Len(pairs) = 0 THEN <<>>
  ELSE join([i \in 1..Len(pairs) |->
               pairs[i].parameterName \o <<" ", "=", " ">>
                 \o pairs[i].parameterValue],
            <<" ", "|", " ">>)

\* humanConfigTag
humanConfigTag(pairs) ==
  IF Len(pairs) = 0 THEN <<>>
  ELSE join([i \in 1..Len(pairs) |->
               pairs[i].parameterName \o <<" ", "=", " ">>
                 \o pairs[i].parameterBareValue],
            <<" ", "|", " ">>)

\* variant: the part name is left out of the base name
getBaseFileNameStudio(elementName, partName, combineParts) == elementName

\* getBaseFileName
getBaseFileName(elementName, partName, combineParts) ==
  IF combineParts THEN elementName
  ELSE elementName \o <<" ", "-", " ">> \o partName

\* extForFormat
extForFormat(fmt) ==
  LET f == toLowerCase(fmt) IN
  IF f = <<"s","o","l","i","d","w","o","r","k","s">> THEN <<"s","l","d","p","r","t">>
  ELSE IF f = <<"p","a","r","a","s","o","l","i","d">> THEN <<"x","_","t">>
  ELSE IF f = <<"i","g","e","s">> THEN <<"i","g","s">>
  ELSE IF f = <<"s","t","e","p">> THEN <<"s","t","e","p">>
  ELSE f

\* isZipPayload; an absent content-type header is the empty string
\* ((contentType || "") in the code); bytes are numbers 0..255
isZipPayload(contentType, buffer) ==
  LET type == toLowerCase(contentType) IN
  \/ includes(type, <<"z","i","p">>)
  \/ (Len(buffer) >= 2 /\ buffer[1] = 80 /\ buffer[2] = 75)

\* normalizeName: lower-case, then drop every character outside [a-z0-9]
IsAlnumLower(c) ==
  \/ \E i \in 1..Len(LowerChars) : LowerChars[i] = c
  \/ \E i \in 1..Len(DigitChars) : DigitChars[i] = c

normalizeName(s) ==
  LET l == toLowerCase(s) IN
  SelectSeqIdx(l, [i \in 1..Len(l) |-> IsAlnumLower(l[i])], 1)


\* f.name.split("/").pop() || f.name
RECURSIVE LastSlash(_, _)
LastSlash(name, i) ==
  IF i = 0 THEN 0
  ELSE IF name[i] = "/" THEN i
  ELSE LastSlash(name, i - 1)

BaseName(name) ==
  LET k    == LastSlash(name, Len(name))
      last == SubSeq(name, k + 1, Len(name))
  IN IF Len(last) > 0 THEN last ELSE name

\* Array.prototype.find: index of the first element with hit[i], 0 when none
FirstIdx(hit) ==
  IF \E i \in DOMAIN hit : hit[i]
    THEN CHOOSE i \in DOMAIN hit : hit[i] /\ \A j \in DOMAIN hit : hit[j] => i <= j
    ELSE 0

\* variant: the first file of the container is taken
pickZipEntryFirst(files, extCandidates, partName, elementName) ==
  LET entries == SelectSeqIdx(files, [i \in 1..Len(files) |-> ~files[i].dir], 1)
  IN IF Len(entries) = 0 THEN <<>> ELSE <<entries[1]>>

\* variant: with no file of an expected extension the first file is taken,
\* however many there are
pickZipEntryOrFirst(files, extCandidates, partName, elementName) ==
  LET entries == SelectSeqIdx(files, [i \in 1..Len(files) |-> ~files[i].dir], 1)
      hasExt(f) == \E k \in 1..Len(extCandidates) :
                     endsWith(toLowerCase(BaseName(f.name)),
                              <<".">> \o toLowerCase(extCandidates[k]))
      byExt == SelectSeqIdx(entries,
                            [i \in 1..Len(entries) |-> hasExt(entries[i])], 1)
  IN IF Len(entries) = 0 THEN <<>>
     ELSE IF Len(byExt) = 0 THEN <<entries[1]>>
     ELSE <<byExt[1]>>

\* pickZipEntryForPart: files is the container's entry list in insertion
\* order, each [name, dir]; partName / elementName are "" when not given.
\* The result is <<entry>>, or <<>> for null.
pickZipEntryForPart(files, extCandidates, partName, elementName) ==
  LET entries == SelectSeqIdx(files, [i \in 1..Len(files) |-> ~files[i].dir], 1)
      hasExt(f) == \E k \in 1..Len(extCandidates) :
                     endsWith(toLowerCase(BaseName(f.name)),
                              <<".">> \o toLowerCase(extCandidates[k]))
      byExt == SelectSeqIdx(entries,
                            [i \in 1..Len(entries) |-> hasExt(entries[i])], 1)
      normPart == normalizeName(partName)
      normElem == normalizeName(elementName)
      expectedPrefix ==
        IF Len(elementName) > 0 /\ Len(partName) > 0
          THEN normalizeName(elementName \o <<" ", "-", " ">> \o partName)
          ELSE <<>>
      norm(i) == normalizeName(BaseName(byExt[i].name))
      exact == FirstIdx([i \in 1..Len(byExt) |-> startsWith(norm(i), expectedPrefix)])
      containsPart == FirstIdx([i \in 1..Len(byExt) |-> includes(norm(i), normPart)])
      containsElem == FirstIdx([i \in 1..Len(byExt) |-> includes(norm(i), normElem)])
  IN IF Len(entries) = 0 THEN <<>>
     ELSE IF Len(byExt) = 1 THEN <<byExt[1]>>
     ELSE IF Len(byExt) = 0
       THEN (IF Len(entries) = 1 THEN <<entries[1]>> ELSE <<>>)
     ELSE IF exact # 0 THEN <<byExt[exact]>>
     ELSE IF Len(normPart) > 0 /\ containsPart # 0 THEN <<byExt[containsPart]>>
     ELSE IF Len(normElem) > 0 /\ containsElem # 0 THEN <<byExt[containsElem]>>
     ELSE <<byExt[1]>>

(***************************************************************************)
(* Export requests (ExportInput, components/types.ts) drawn for the check  *)
(***************************************************************************)
\* a request holds at most MaxUnits (combination, format) units
MaxUnits == 2

sFrame   == <<"F","r","a","m","e">>
sBracket == <<"B","r","a","c","k","e","t">>
sPartId  == <<"J","H","D">>
sWidth   == <<"W","i","d","t","h">>
sMm      == <<"m","m">>

fmtStl  == <<"s","t","l">>
fmtStep == <<"S","T","E","P">>
fmtIges == <<"I","G","E","S">>
Formats == {fmtStl, fmtStep, fmtIges}

RECURSIVE SeqsUpTo(_, _)
SeqsUpTo(S, n) ==
  IF n = 0 THEN {<<>>}
  ELSE LET shorter == SeqsUpTo(S, n - 1) IN
       shorter \cup {Append(q, x) : q \in {t \in shorter : Len(t) = n - 1}, x \in S}

FormatLists == {q \in SeqsUpTo(Formats, MaxUnits) :
                  \A i, j \in 1..Len(q) : q[i] = q[j] => i = j}

Option(key, hasKeyDisplay, keyDisplay, values, unit) ==
  [key |-> key, hasKeyDisplay |-> hasKeyDisplay, keyDisplay |-> keyDisplay,
   values |-> values, unit |-> unit]

\* configOptions of a request: none; one measure with one value; one
\* parameter whose values 50 and "50" differ only in type; one parameter
\* with three values; a parameter with no value
sColor == <<"C","o","l","o","r">>
sRed   == <<"r","e","d">>
\* two parameters: a measure with its unit and an enumeration
TwoOptions ==
  << Option(<<"w">>, TRUE, sWidth, << NumVal(50) >>, sMm),
     Option(<<"c">>, TRUE, sColor, << StrVal(sRed) >>, <<>>) >>

OptionLists ==
  { <<>>,
    TwoOptions,
    << Option(<<"w">>, TRUE, sWidth, << NumVal(50) >>, sMm) >>,
    << Option(<<"w">>, TRUE, sWidth, << NumVal(50), StrVal(<<"5","0">>) >>, <<>>) >>,
    << Option(<<"w">>, FALSE, <<>>, << NumVal(5), NumVal(6), NumVal(7) >>, sMm) >>,
    << Option(<<"w">>, TRUE, sWidth, << >>, sMm) >> }

\* combos of a request (route.ts: options, hasConfig, valueArrays, combos)
CombosOf(configOptions) ==
  IF Len(configOptions) > 0
    THEN cartesianProduct([i \in 1..Len(configOptions) |-> configOptions[i].values])
    ELSE << <<>> >>

Requests ==
  { r \in [auth          : BOOLEAN,
           documentId    : BOOLEAN,
           elementId     : BOOLEAN,
           formatsKind   : {"absent", "notArray", "array"},
           formats       : FormatLists,
           elementName   : {sFrame},
           partId        : {<<>>, sPartId},
           partName      : {<<>>, sBracket},
           configOptions : OptionLists,
           combineParts  : BOOLEAN] :
      /\ Len(CombosOf(r.configOptions)) * Len(r.formats) <= MaxUnits
      /\ Len(CombosOf(r.configOptions)) <= MaxUnits
      /\ (r.formatsKind # "array" => r.formats = <<>>)
      /\ (r.combineParts => (r.partId = <<>>) = (r.partName = <<>>))
      \* the two-parameter options come with one well-formed single-part
      \* request per format
      /\ (r.configOptions = TwoOptions =>
            /\ r.auth /\ r.documentId /\ r.elementId
            /\ r.formatsKind = "array" /\ Len(r.formats) = 1
            /\ r.partId = sPartId /\ r.partName = sBracket
            /\ ~r.combineParts) }

(***************************************************************************)
(* The provider's answers                                                  *)
(***************************************************************************)
ctZip   == <<"a","p","p","l","i","c","a","t","i","o","n","/","z","i","p">>
ctOctet == <<"a","p","p","l","i","c","a","t","i","o","n","/",
             "o","c","t","e","t","-","s","t","r","e","a","m">>
ctNone  == <<>>

sSep == <<" ", "-", " ">>
File(name) == [name |-> name, dir |-> FALSE]
Dir(name)  == [name |-> name, dir |-> TRUE]
nBracketStep == sFrame \o sSep \o sBracket \o <<".","s","t","e","p">>
nPlateStp    == sFrame \o sSep \o <<"P","l","a","t","e",".","S","T","P">>
nBracketIgs  == <<"o","u","t","/">> \o sBracket \o <<".","i","g","s">>
nReadme      == <<"r","e","a","d","m","e",".","t","x","t">>
nNotes       == <<"n","o","t","e","s",".","t","x","t">>

\* entry lists of the containers the translator may return
Containers ==
  { << Dir(<<"o","u","t","/">>) >>,
    << File(nPlateStp), File(nBracketStep) >>,
    << Dir(<<"o","u","t","/">>), File(nBracketIgs) >>,
    << File(nReadme), File(nNotes) >> }

\* a response body with its declared content type; valid says whether the
\* bytes can be opened as a zip container, files lists its entries
Payload(contentType, bytes, valid, files) ==
  [contentType |-> contentType, bytes |-> bytes, valid |-> valid, files |-> files]

Payloads ==
  { Payload(ctOctet, <<115, 111, 108>>, FALSE, <<>>),
    Payload(ctOctet, <<80, 0>>, FALSE, <<>>),
    Payload(ctNone, <<>>, FALSE, <<>>),
    Payload(ctZip, <<1, 2>>, FALSE, <<>>) }
  \cup { Payload(ctZip, <<80, 75, 3, 4>>, TRUE, c) : c \in Containers }
  \cup { Payload(ctNone, <<80, 75, 3, 4>>, TRUE, << File(nBracketStep) >>) }

\* HTTP status of a provider response that is not ok
ProviderErrorStatus == {404, 500}

(***************************************************************************)
(* State of one run of the export request handler POST                     *)
(***************************************************************************)
VARIABLES
  req,         \* the request (headers and body)
  combos,      \* const combos (708)
  configPairs, \* const configPairs of the current combination (722)
  configTag,   \* const configTag of the current combination (723)
  pc,          \* the handler's position
  ci,          \* index of the combination of the outer loop (for combo of combos)
  fi,          \* index of the format of the inner loop (for format of formats)
  enc,         \* { encodedId, queryParam } of the current combination
  attempt,     \* the polling loop's counter
  contentType, \* contentType of the synchronous STL path
  zip,         \* the JSZip archive: entries [name, content, unit]
  response,    \* the response returned, kind "none" while running
  unit,        \* history: the fate of every (combination, format) unit
  cnt,         \* history: provider requests issued for the current unit
  nEncode,     \* history: configuration encoding calls issued
  lastReq      \* history: the provider request issued last for the current unit

vars == <<req, combos, configPairs, configTag, pc, ci, fi, enc, attempt, contentType, zip, response,
          unit, cnt, nEncode, lastReq>>

maxAttempts == 90

formats == req.formats
NUnits  == IF req.formatsKind = "array"
             THEN Len(CombosOf(req.configOptions)) * Len(formats) ELSE 0
UnitOf(c, f) == (c - 1) * Len(formats) + f
cur == UnitOf(ci, fi)

\* configPairs and configTag of combination c (route.ts 722-730)
hasConfig == Len(req.configOptions) > 0
ConfigPairsOf(c) ==
  IF hasConfig THEN buildConfigPairs(req.configOptions, combos[c]) ELSE <<>>
ConfigTagOf(pairs) == IF Len(pairs) > 0 THEN humanConfigTag(pairs) ELSE <<>>
\* const tagSuffix = configPairs.length ? ` - ${configTag}` : ""
tagSuffix == IF Len(configPairs) > 0 THEN sSep \o configTag ELSE <<>>

\* variant: the format is compared as given
fmtOfRaw(f) == formats[f]

\* fmt of the format at position f: String(format).toUpperCase()
fmtOf(f) == toUpperCase(formats[f])
sSTL == <<"S","T","L">>
IsStl(fmt) == fmt = sSTL

\* reason is the text an error message ends with after its colon, where the
\* properties need it (the failure reason of a translation)
NoResponse == [kind |-> "none", status |-> 0, error |-> "", details |-> FALSE,
               entries |-> {}, reason |-> <<>>]
ErrorResponse(status, error, details) ==
  [kind |-> "error", status |-> status, error |-> error, details |-> details,
   entries |-> {}, reason |-> <<>>]
ArchiveResponse(z) ==
  [kind |-> "archive", status |-> 200, error |-> "", details |-> FALSE,
   entries |-> z, reason |-> <<>>]

NoEncoding == [encodedId |-> <<>>, queryParam |-> <<>>]
\* what the provider's configurationencodings endpoint answers for pairs
sConfiguration == <<"c","o","n","f","i","g","u","r","a","t","i","o","n","=">>
EncodingOf(pairs) ==
  LET body == join([i \in 1..Len(pairs) |->
                      pairs[i].parameterId \o <<"=">> \o pairs[i].parameterValue],
                   <<";">>)
  IN [encodedId |-> <<"#">> \o body, queryParam |-> sConfiguration \o body]

NoCount == [stl |-> 0, redirect |-> 0, submit |-> 0, poll |-> 0,
            download |-> 0]

\* a provider request and the kind of answer it got: query is the
\* configuration part of the URL query, configuration the body's configuration
\* field, partIds the shape of the body's partIds field, partId the part id
\* sent (in the body or in the URL path), auth the Authorization header sent
\* (authHeader), declared the content-type header of the answer where the
\* handler reads it after a redirect
Request(kind, answer, query, configuration, partIds, partId) ==
  [kind |-> kind, answer |-> answer, query |-> query,
   configuration |-> configuration, partIds |-> partIds, partId |-> partId,
   auth |-> req.auth, declared |-> <<>>, status |-> 0, failureReason |-> <<>>,
   bytes |-> <<>>, files |-> <<>>]
\* the bytes of the answer's body (arrayBuffer)
Body(r, bytes) == [r EXCEPT !.bytes = bytes]
\* the payload fetched for a translation result: its content-type header,
\* its bytes and, where they open as a container, the entries inside
Fetched(r, p) ==
  [r EXCEPT !.declared = p.contentType, !.bytes = p.bytes, !.files = p.files]
\* the answer's HTTP status, kept where it is not ok
Answered(r, st) == [r EXCEPT !.status = st]
\* the answer's content-type header
Declared(r, ct) == [r EXCEPT !.declared = ct]
Simple(kind, answer) == Request(kind, answer, <<>>, <<>>, "absent", <<>>)
NoRequest == Simple("none", "none")

\* zip.file(name, data): an entry of the same name is replaced
ZipFile(z, name, content, u) ==
  {e \in z : e.name # name} \cup {[name |-> name, content |-> content, unit |-> u]}

Init ==
  /\ req \in Requests
  /\ combos = <<>>
  /\ configPairs = <<>>
  /\ configTag = <<>>
  /\ pc = "validate"
  /\ ci = 0
  /\ fi = 0
  /\ enc = NoEncoding
  /\ attempt = 0
  /\ contentType = <<>>
  /\ zip = {}
  /\ response = NoResponse
  /\ unit = [u \in 1..NUnits |-> "unstarted"]
  /\ cnt = NoCount
  /\ nEncode = 0
  /\ lastReq = NoRequest

(***************************************************************************)
(* The handler POST, route.ts 655-1098                                     *)
(***************************************************************************)
\* return NextResponse.json({ error }, { status }) before any unit runs
Reject(status, error) ==
  /\ pc' = "responded"
  /\ response' = ErrorResponse(status, error, FALSE)

\* variant: the failure of a unit is skipped over (continue instead of return)
FailUnitContinue(status, error, details) ==
  /\ pc' = "format"
  /\ unit' = [unit EXCEPT ![cur] = "failed"]
  /\ UNCHANGED response

\* return NextResponse.json({ error, details? }, { status }) inside a unit:
\* the handler returns, the loops are left
FailUnit(status, error, details) ==
  /\ pc' = "responded"
  /\ response' = ErrorResponse(status, error, details)
  /\ unit' = [unit EXCEPT ![cur] = "failed"]

\* an exception reaches the catch of POST (1094-1097)
Catch ==
  /\ pc' = "responded"
  /\ response' = ErrorResponse(500, "Failed to export", FALSE)

\* statusData.failureReason of a FAILED answer: absent, or a text
sBadGeometry == <<"b","a","d"," ","g","e","o","m","e","t","r","y">>
FailureReasons == {<<>>, sBadGeometry}
sUnknown == <<"U","n","k","n","o","w","n">>

\* variant: the provider's reason is dropped
FailureTextUnknown(failureReason) == sUnknown

\* statusData.failureReason || "Unknown"
FailureText(failureReason) ==
  IF Len(failureReason) > 0 THEN failureReason ELSE sUnknown

\* requestState FAILED: return NextResponse.json({ error: `Translation
\* failed (fmt): reason` }, { status: 500 }) (945-954, 1057-1066)
TranslationFailed(failureReason) ==
  /\ pc' = "responded"
  /\ response' = [ErrorResponse(500, "Translation failed", FALSE)
                   EXCEPT !.reason = FailureText(failureReason)]
  /\ unit' = [unit EXCEPT ![cur] = "failed"]

\* variant: the loop condition written with <=
LoopGuardInclusive(a) == a <= maxAttempts

\* while (attempt < maxAttempts)
LoopGuard(a) == a < maxAttempts

\* variant: the timeout test fires one attempt early
TimedOutEarly(a) == a >= maxAttempts - 1

\* if (attempt >= maxAttempts) after the polling loop
TimedOut(a) == a >= maxAttempts

\* variant: an exhausted loop is reported like a FAILED translation
AfterLoopReportsFailed(fate) ==
  IF TimedOut(attempt)
    THEN FailUnit(500, "Translation failed", FALSE)
    ELSE /\ pc' = "format"
         /\ unit' = [unit EXCEPT ![cur] = fate]
         /\ UNCHANGED response

\* the statement after the polling loop, entered with fate as the unit's
\* fate when the loop was left
AfterLoop(fate) ==
  IF TimedOut(attempt)
    THEN FailUnit(408, "Translation timeout", FALSE)
    ELSE /\ pc' = "format"
         /\ unit' = [unit EXCEPT ![cur] = fate]
         /\ UNCHANGED response

\* variant: an empty resultExternalDataIds is answered with an error
NoResultIsError == FailUnit(500, "Translation produced no result", FALSE)

\* DONE with an empty resultExternalDataIds: nothing is fetched or written,
\* break (892-893, 944)
NoResult == AfterLoop("empty")

\* base name of the entries of the request
base == getBaseFileName(req.elementName, req.partName, req.combineParts)
EntryName(ext) == base \o tagSuffix \o <<".">> \o ext
sZipExt == <<"z","i","p">>
sStlExt == <<"s","t","l">>

\* variant: formats is not looked at
MissingParametersIds == ~req.documentId \/ ~req.elementId

\* !documentId || !elementId || !formats || !Array.isArray(formats) (678)
MissingParameters ==
  ~req.documentId \/ ~req.elementId \/ req.formatsKind # "array"

Validate ==
  /\ pc = "validate"
  /\ IF ~req.auth
       THEN Reject(401, "Missing authorization header")
     ELSE IF MissingParameters
       THEN Reject(400, "Missing required parameters")
     ELSE IF ~req.combineParts /\ Len(req.partId) = 0 /\ Len(req.partName) = 0
       THEN Reject(400, "partId or partName is required")
     ELSE pc' = "workspace" /\ UNCHANGED response
  /\ UNCHANGED <<req, combos, configPairs, configTag, ci, fi, enc, attempt,
                 contentType, zip, unit, cnt, nEncode, lastReq>>

\* getDefaultWorkspaceId (helpers.ts 125-139) and its use (route.ts 694-708)
GetWorkspace ==
  /\ pc = "workspace"
  /\ \/ \* options, hasConfig, valueArrays, combos (703-708)
        /\ combos' = CombosOf(req.configOptions)
        /\ pc' = "combo"
        /\ lastReq' = Simple("document", "ok")
        /\ UNCHANGED response
     \/ /\ Reject(400, "No default workspace found")
        /\ lastReq' = Simple("document", "noWorkspace")
        /\ UNCHANGED combos
     \/ /\ Catch
        /\ lastReq' = Simple("document", "notok")
        /\ UNCHANGED combos
  /\ UNCHANGED <<req, configPairs, configTag, ci, fi, enc, attempt, contentType,
                 zip, unit, cnt, nEncode>>

\* variant: the loop over combos stops before the last combination
CombosDoneEarly(c) == c + 1 >= Len(combos)

\* the for-of over combos is exhausted after combination c
CombosDone(c) == c + 1 > Len(combos)

\* variant: the encoding call is issued whatever the number of pairs
NeedsEncodingAlways(pairs) == TRUE

\* configPairs.length > 0 ? await encodeConfiguration(...) : {}
NeedsEncoding(pairs) == Len(pairs) > 0

\* for (const combo of combos): the next combination, if any (721-744)
NextCombo ==
  /\ pc = "combo"
  /\ IF CombosDone(ci)
       THEN pc' = "generate" /\ UNCHANGED <<ci, fi, enc, configPairs, configTag>>
       ELSE /\ ci' = ci + 1
            /\ fi' = 0
            /\ enc' = NoEncoding
            /\ configPairs' = ConfigPairsOf(ci + 1)
            /\ configTag' = ConfigTagOf(ConfigPairsOf(ci + 1))
            /\ pc' = IF NeedsEncoding(ConfigPairsOf(ci + 1)) THEN "encode" ELSE "format"
  /\ UNCHANGED <<req, combos, attempt, contentType, zip, response, unit, cnt,
                 nEncode, lastReq>>

\* variant: a rejected encoding is swallowed and the formats are exported
\* without configuration
EncodeRejectedIgnored == pc' = "format" /\ UNCHANGED response

\* if (!r.ok) throw new Error(...) of encodeConfiguration: the exception
\* leaves both loops and reaches the catch of POST
EncodeRejected == Catch

\* encodeConfiguration (helpers.ts 141-167), called at route.ts 733-744
Encode ==
  /\ pc = "encode"
  /\ nEncode' = nEncode + 1
  /\ \/ /\ enc' = EncodingOf(configPairs)
        /\ pc' = "format"
        /\ lastReq' = Simple("encode", "ok")
        /\ UNCHANGED response
     \/ /\ EncodeRejected
        /\ lastReq' = Simple("encode", "notok")
        /\ UNCHANGED enc
  /\ UNCHANGED <<req, combos, configPairs, configTag, ci, fi, attempt,
                 contentType, zip, unit, cnt>>

\* for (const format of formats): the next format, if any (746-750, 834)
NextFormat ==
  /\ pc = "format"
  /\ IF fi + 1 > Len(formats)
       THEN pc' = "combo" /\ UNCHANGED <<fi, unit>>
       ELSE /\ fi' = fi + 1
            /\ unit' = [unit EXCEPT ![UnitOf(ci, fi + 1)] = "running"]
            /\ pc' = IF IsStl(fmtOf(fi + 1)) THEN "stl" ELSE "submit"
  \* the block-scoped attempt and contentType of the unit left are gone
  /\ attempt' = 0
  /\ contentType' = <<>>
  /\ cnt' = NoCount
  /\ lastReq' = NoRequest
  /\ UNCHANGED <<req, combos, configPairs, configTag, ci, enc, zip, response,
                 nEncode>>

\* zip.file(isZip ? base.zip : base.stl, fileBuffer) and continue (816-830)
StoreStl(ct, p) ==
  LET isZip == isZipPayload(ct, p.bytes) IN
  /\ zip' = ZipFile(zip, EntryName(IF isZip THEN sZipExt ELSE sStlExt),
                    IF isZip THEN "container" ELSE "plain", cur)
  /\ unit' = [unit EXCEPT ![cur] = "stored"]
  /\ pc' = "format"
  /\ UNCHANGED response

\* the synchronous STL request as sent (751-774)
StlSent(answer) ==
  Request("stl", answer, enc.queryParam, <<>>, "absent",
          IF req.combineParts THEN <<>> ELSE req.partId)

\* the synchronous STL request (751-814)
StlRequest ==
  /\ pc = "stl"
  /\ cnt' = [cnt EXCEPT !.stl = @ + 1]
  /\ \/ /\ FailUnit(500, "No redirect URL for STL", FALSE)
        /\ lastReq' = StlSent("noLocation")
        /\ UNCHANGED <<zip, contentType>>
     \/ \E ct \in {ctNone, ctOctet, ctZip} :
          /\ contentType' = ct
          /\ pc' = "redirect"
          /\ lastReq' = StlSent("redirect")
          /\ UNCHANGED <<zip, unit, response>>
     \/ \E st \in ProviderErrorStatus :
          /\ FailUnit(st, "STL export failed", TRUE)
          /\ lastReq' = Answered(StlSent("notok"), st)
          /\ UNCHANGED <<zip, contentType>>
     \/ \E p \in Payloads :
          /\ StoreStl(p.contentType, p)
          /\ lastReq' = Body(StlSent("ok"), p.bytes)
          /\ contentType' = p.contentType
  /\ UNCHANGED <<req, combos, configPairs, configTag, ci, fi, enc, attempt,
                 nEncode>>

\* variant: the content type of the 307 answer is kept
RedirectContentTypeFirst(declared, first) == first

\* contentType = redirectResp.headers.get("content-type") || contentType
RedirectContentType(declared, first) ==
  IF Len(declared) > 0 THEN declared ELSE first

\* the fetch of the redirect target (786-802)
StlRedirect ==
  /\ pc = "redirect"
  /\ cnt' = [cnt EXCEPT !.redirect = @ + 1]
  /\ \/ \E st \in ProviderErrorStatus :
          /\ FailUnit(st, "STL redirect failed", TRUE)
          /\ lastReq' = Answered(Simple("redirect", "notok"), st)
          /\ UNCHANGED <<zip, contentType>>
     \/ \E p \in Payloads :
          LET ct == RedirectContentType(p.contentType, contentType)
          IN /\ StoreStl(ct, p)
             /\ lastReq' = Body(Declared(Simple("redirect", "ok"), p.contentType),
                                p.bytes)
             /\ contentType' = ct
  /\ UNCHANGED <<req, combos, configPairs, configTag, ci, fi, enc, attempt,
                 nEncode>>

\* the partIds field of tBody: `partIds: partId` for a single part (a string;
\* JSON.stringify drops the key when partId is undefined), no such key in
\* combine scope (840-845, 971-976)
PartIdsField(combineParts, partId) ==
  IF combineParts \/ Len(partId) = 0 THEN "absent" ELSE "string"

\* the translation submission as sent: tBody and url (838-845, 969-976)
SubmitSent(answer) ==
  Request("submit", answer, <<>>, enc.encodedId,
          PartIdsField(req.combineParts, req.partId),
          IF req.combineParts THEN <<>> ELSE req.partId)

\* variant: a submission that was not accepted is polled all the same
SubmitFailedPolls(st) == pc' = "poll" /\ UNCHANGED <<unit, response>>

\* if (!translationRes.ok) return NextResponse.json({ error, details },
\* { status: translationRes.status }) (858-867, 989-997)
SubmitFailed(st) == FailUnit(st, "Failed to start translation", TRUE)

\* the translation submission (838-867 single part, 969-997 combine)
Submit ==
  /\ pc = "submit"
  /\ cnt' = [cnt EXCEPT !.submit = @ + 1]
  /\ \/ \E st \in ProviderErrorStatus :
          /\ SubmitFailed(st)
          /\ lastReq' = Answered(SubmitSent("notok"), st)
          /\ UNCHANGED attempt
     \/ /\ attempt' = 0
        /\ pc' = "poll"
        /\ lastReq' = SubmitSent("ok")
        /\ UNCHANGED <<unit, response>>
  /\ UNCHANGED <<req, combos, configPairs, configTag, ci, fi, enc, contentType,
                 zip, nEncode>>

\* one turn of the polling loop (871-956 single part, 1001-1068 combine)
Poll ==
  /\ pc = "poll"
  /\ LoopGuard(attempt)
  /\ cnt' = [cnt EXCEPT !.poll = @ + 1]
  /\ \/ \E st \in ProviderErrorStatus :
          /\ FailUnit(st, "Failed to read translation status", FALSE)
          /\ lastReq' = Answered(Simple("poll", "notok"), st)
          /\ UNCHANGED attempt
     \/ \E fr \in FailureReasons :
          /\ TranslationFailed(fr)
          /\ lastReq' = [Simple("poll", "FAILED") EXCEPT !.failureReason = fr]
          /\ UNCHANGED attempt
     \/ \* DONE with at least one result id: the download follows
        /\ pc' = "download"
        /\ lastReq' = Simple("poll", "DONE")
        /\ UNCHANGED <<attempt, unit, response>>
     \/ \* DONE with no result id
        /\ NoResult
        /\ lastReq' = Simple("poll", "DONE0")
        /\ UNCHANGED attempt
     \/ \* any other requestState: attempt++
        /\ attempt' = attempt + 1
        /\ lastReq' = Simple("poll", "ACTIVE")
        /\ UNCHANGED <<pc, unit, response>>
  /\ UNCHANGED <<req, combos, configPairs, configTag, ci, fi, enc, contentType,
                 zip, nEncode>>

\* the loop condition fails: the statement after the loop (957-966, 1069-1078)
LoopExit ==
  /\ pc = "poll"
  /\ ~LoopGuard(attempt)
  /\ AfterLoop("running")
  /\ UNCHANGED <<req, combos, configPairs, configTag, ci, fi, enc, attempt,
                 contentType, zip, cnt, nEncode, lastReq>>

sStep == <<"s","t","e","p">>
sStp  == <<"s","t","p">>

\* the fetch of the translation result and the entry written for it
\* (894-944 single part, 1024-1056 combine), then break
Download ==
  /\ pc = "download"
  /\ cnt' = [cnt EXCEPT !.download = @ + 1]
  /\ \/ \E st \in ProviderErrorStatus :
          /\ FailUnit(st, "Failed to download file", FALSE)
          /\ lastReq' = Answered(Simple("download", "notok"), st)
          /\ UNCHANGED zip
     \/ \E p \in Payloads :
          LET ext    == extForFormat(fmtOf(fi))
              zipped == isZipPayload(p.contentType, p.bytes)
              entry  == pickZipEntryForPart(p.files,
                          IF ext = sStep THEN <<sStep, sStp>> ELSE <<ext>>,
                          req.partName, req.elementName)
          IN /\ lastReq' = Fetched(Simple("download", "ok"), p)
             /\ IF req.combineParts
                  THEN /\ zip' = ZipFile(zip, EntryName(IF zipped THEN sZipExt ELSE ext),
                                         IF zipped THEN "container" ELSE "plain", cur)
                       /\ AfterLoop("stored")
                ELSE IF ~zipped
                  THEN /\ zip' = ZipFile(zip, EntryName(ext), "plain", cur)
                       /\ AfterLoop("stored")
                ELSE IF ~p.valid
                  THEN \* JSZip.loadAsync rejects
                       /\ Catch
                       /\ unit' = [unit EXCEPT ![cur] = "failed"]
                       /\ UNCHANGED zip
                ELSE IF entry = <<>>
                  THEN /\ FailUnit(500, "Could not locate file inside translator zip",
                                   FALSE)
                       /\ UNCHANGED zip
                ELSE /\ zip' = ZipFile(zip, EntryName(ext), "inner", cur)
                     /\ AfterLoop("stored")
  /\ UNCHANGED <<req, combos, configPairs, configTag, ci, fi, enc, attempt,
                 contentType, nEncode>>

\* zip.generateAsync and the archive response (1083-1093)
Generate ==
  /\ pc = "generate"
  /\ pc' = "responded"
  /\ response' = ArchiveResponse(zip)
  /\ UNCHANGED <<req, combos, configPairs, configTag, ci, fi, enc, attempt,
                 contentType, zip, unit, cnt, nEncode, lastReq>>

Next ==
  \/ Validate
  \/ GetWorkspace
  \/ NextCombo
  \/ Encode
  \/ NextFormat
  \/ StlRequest
  \/ StlRedirect
  \/ Submit
  \/ Poll
  \/ LoopExit
  \/ Download
  \/ Generate

Spec == Init /\ [][Next]_vars

(***************************************************************************)
(* The first handler POST of route.ts, lines 65-638, with the helpers it   *)
(* defines itself (lines 5-63).  It builds the configuration string        *)
(* locally and never calls the encoding endpoint.                           *)
(***************************************************************************)
\* percent-encoding of one character outside the unreserved set; the
\* characters of the model's strings are covered
PercentOf(c) ==
  CASE c = " " -> <<"%","2","0">>
    [] c = "=" -> <<"%","3","D">>
    [] c = ";" -> <<"%","3","B">>
    [] c = "+" -> <<"%","2","B">>
    [] c = "/" -> <<"%","2","F">>
    [] c = "#" -> <<"%","2","3">>
    [] c = "|" -> <<"%","7","C">>
    [] OTHER   -> <<c>>

RECURSIVE EncodeChars(_, _)
EncodeChars(s, spaceAs) ==
  IF Len(s) = 0 THEN <<>>
  ELSE (IF s[1] = " " THEN spaceAs ELSE PercentOf(s[1]))
         \o EncodeChars(Tail(s), spaceAs)

\* encodeURIComponent
encodeURIComponent(s) == EncodeChars(s, <<"%","2","0">>)

\* URLSearchParams.prototype.toString for the single parameter name=value
URLSearchParamsToString(name, value) ==
  name \o <<"=">> \o EncodeChars(value, <<"+">>)

\* buildConfigPairs (12-19); String(undefined) is "undefined"
buildConfigPairs1(options, combo) ==
  [i \in 1..Len(options) |->
     [key        |-> options[i].key,
      keyDisplay |-> IF options[i].hasKeyDisplay
                       THEN options[i].keyDisplay
                       ELSE <<"u","n","d","e","f","i","n","e","d">>,
      value      |-> String(combo[i]),
      unit       |-> options[i].unit]]

\* buildConfigurationString (21-30)
buildConfigurationString(pairs) ==
  IF Len(pairs) = 0 THEN <<>>
  ELSE join([i \in 1..Len(pairs) |->
               IF Len(pairs[i].unit) > 0
                 THEN pairs[i].key \o <<"=">> \o pairs[i].value \o <<"+">>
                        \o pairs[i].unit
                 ELSE pairs[i].key \o <<"=">> \o pairs[i].value],
            <<";">>)

\* humanConfigTag (32-38)
humanConfigTag1(pairs) ==
  join([i \in 1..Len(pairs) |->
          pairs[i].keyDisplay \o <<" ", "=", " ">> \o pairs[i].value],
       <<" ", "|", " ">>)

\* getBaseFileName (40-55)
getBaseFileName1(elementName, partName, combineParts) ==
  IF combineParts
    THEN elementName \o sSep \o <<"C","o","m","b","i","n","e","d">>
    ELSE elementName \o sSep \o partName

\* extForFormat (57-63)
extForFormat1(fmt) ==
  LET f == toLowerCase(fmt) IN
  IF f = <<"s","o","l","i","d","w","o","r","k","s">> THEN <<"s","l","d","p","r","t">>
  ELSE IF f = <<"p","a","r","a","s","o","l","i","d">> THEN <<"x","_","t">>
  ELSE IF f = <<"i","g","e","s">> THEN <<"i","g","s">>
  ELSE f

\* const isZip of the STL path (252-254): content type, or first byte 0x50
isZip1(ct, buffer) ==
  \/ includes(toLowerCase(ct), <<"z","i","p">>)
  \/ (Len(buffer) > 0 /\ buffer[1] = 80)

\* configurationString, hasConfigurationParam, tagSuffix of the current
\* combination (165-167, 251)
configurationString == buildConfigurationString(configPairs)
hasConfigurationParam == Len(configurationString) > 0
tagSuffix1 == IF hasConfigurationParam THEN sSep \o configTag ELSE <<>>
base1 == getBaseFileName1(req.elementName, req.partName, req.combineParts)
EntryName1(ext) == base1 \o tagSuffix1 \o <<".">> \o ext

sSTEP == <<"S","T","E","P">>
sSOLIDWORKS == <<"S","O","L","I","D","W","O","R","K","S">>
\* the formats exported through the v11 export endpoints (265)
IsExportEndpoint(fmt) == fmt = sSTEP \/ fmt = sSOLIDWORKS

\* the statement after a polling loop of the first handler
AfterLoop1(fate, timeoutError) ==
  IF TimedOut(attempt)
    THEN FailUnit(408, timeoutError, FALSE)
    ELSE /\ pc' = "format"
         /\ unit' = [unit EXCEPT ![cur] = fate]
         /\ UNCHANGED response

\* request validation (67-101)
Validate1 ==
  /\ pc = "validate"
  /\ IF ~req.auth
       THEN Reject(401, "Missing authorization header")
     ELSE IF ~req.documentId \/ ~req.elementId \/ req.formatsKind # "array"
       THEN Reject(400, "Missing required parameters")
     ELSE IF ~req.combineParts /\ Len(req.partId) = 0
       THEN Reject(400, "partId is required when combineParts is false")
     ELSE pc' = "workspace" /\ UNCHANGED response
  /\ UNCHANGED <<req, combos, configPairs, configTag, ci, fi, enc, attempt,
                 contentType, zip, unit, cnt, nEncode, lastReq>>

\* 1) Resolve default workspace (103-121)
GetWorkspace1 ==
  /\ pc = "workspace"
  /\ \/ /\ pc' = IF req.combineParts THEN "parts" ELSE "combo"
        /\ combos' = IF req.combineParts THEN combos ELSE CombosOf(req.configOptions)
        /\ lastReq' = Simple("document", "ok")
        /\ UNCHANGED response
     \/ /\ Reject(400, "No default workspace found")
        /\ lastReq' = Simple("document", "noWorkspace")
        /\ UNCHANGED combos
     \/ \E st \in ProviderErrorStatus :
          /\ Reject(st, "Failed to get document info")
          /\ lastReq' = Answered(Simple("document", "notok"), st)
          /\ UNCHANGED combos
  /\ UNCHANGED <<req, configPairs, configTag, ci, fi, enc, attempt, contentType,
                 zip, unit, cnt, nEncode>>

\* the part list of the studio when combining (124-142), then the
\* combinations (145-150)
ListParts1 ==
  /\ pc = "parts"
  /\ \/ /\ pc' = "combo"
        /\ combos' = CombosOf(req.configOptions)
        /\ lastReq' = Simple("parts", "ok")
        /\ UNCHANGED response
     \/ \E st \in ProviderErrorStatus :
          /\ Reject(st, "Failed to get parts list")
          /\ lastReq' = Answered(Simple("parts", "notok"), st)
          /\ UNCHANGED combos
  /\ UNCHANGED <<req, configPairs, configTag, ci, fi, enc, attempt, contentType,
                 zip, unit, cnt, nEncode>>

\* for (const combo of combos) (163-167)
NextCombo1 ==
  /\ pc = "combo"
  /\ IF CombosDone(ci)
       THEN pc' = "generate" /\ UNCHANGED <<ci, fi, configPairs, configTag>>
       ELSE LET pairs == IF hasConfig
                           THEN buildConfigPairs1(req.configOptions, combos[ci + 1])
                           ELSE <<>>
            IN /\ ci' = ci + 1
               /\ fi' = 0
               /\ configPairs' = pairs
               /\ configTag' = IF Len(buildConfigurationString(pairs)) > 0
                                 THEN humanConfigTag1(pairs) ELSE <<>>
               /\ pc' = "format"
  /\ UNCHANGED <<req, combos, enc, attempt, contentType, zip, response, unit,
                 cnt, nEncode, lastReq>>

\* for (const format of formats) (169-173, 262)
NextFormat1 ==
  /\ pc = "format"
  /\ IF fi + 1 > Len(formats)
       THEN pc' = "combo" /\ UNCHANGED <<fi, unit>>
       ELSE /\ fi' = fi + 1
            /\ unit' = [unit EXCEPT ![UnitOf(ci, fi + 1)] = "running"]
            /\ pc' = IF IsStl(fmtOf(fi + 1)) THEN "stl" ELSE "submit"
  /\ attempt' = 0
  /\ contentType' = <<>>
  /\ cnt' = NoCount
  /\ lastReq' = NoRequest
  /\ UNCHANGED <<req, combos, configPairs, configTag, ci, enc, zip, response,
                 nEncode>>

\* zip.file(isZip ? base.zip : base.stl, fileBuffer) and continue (243-259)
StoreStl1(ct, p) ==
  LET isZip == isZip1(ct, p.bytes) IN
  /\ zip' = ZipFile(zip, EntryName1(IF isZip THEN sZipExt ELSE sStlExt),
                    IF isZip THEN "container" ELSE "plain", cur)
  /\ unit' = [unit EXCEPT ![cur] = "stored"]
  /\ pc' = "format"
  /\ UNCHANGED response

\* the synchronous STL request as sent (174-201)
StlSent1(answer) ==
  Request("stl", answer,
          IF hasConfigurationParam
            THEN sConfiguration \o encodeURIComponent(configurationString)
            ELSE <<>>,
          <<>>, "absent",
          IF req.combineParts THEN <<>> ELSE encodeURIComponent(req.partId))

\* the synchronous STL request (174-241)
StlRequest1 ==
  /\ pc = "stl"
  /\ cnt' = [cnt EXCEPT !.stl = @ + 1]
  /\ \/ /\ FailUnit(500, "No redirect URL for STL", FALSE)
        /\ lastReq' = StlSent1("noLocation")
        /\ UNCHANGED <<zip, contentType>>
     \/ \E ct \in {ctNone, ctOctet, ctZip} :
          /\ contentType' = ct
          /\ pc' = "redirect"
          /\ lastReq' = StlSent1("redirect")
          /\ UNCHANGED <<zip, unit, response>>
     \/ \E st \in ProviderErrorStatus :
          /\ FailUnit(st, "STL export failed", TRUE)
          /\ lastReq' = Answered(StlSent1("notok"), st)
          /\ UNCHANGED <<zip, contentType>>
     \/ \E p \in Payloads :
          /\ StoreStl1(p.contentType, p)
          /\ lastReq' = Body(StlSent1("ok"), p.bytes)
          /\ contentType' = p.contentType
  /\ UNCHANGED <<req, combos, configPairs, configTag, ci, fi, enc, attempt,
                 nEncode>>

\* the fetch of the redirect target (213-229)
StlRedirect1 ==
  /\ pc = "redirect"
  /\ cnt' = [cnt EXCEPT !.redirect = @ + 1]
  /\ \/ \E st \in ProviderErrorStatus :
          /\ FailUnit(st, "STL redirect failed", TRUE)
          /\ lastReq' = Answered(Simple("redirect", "notok"), st)
          /\ UNCHANGED <<zip, contentType>>
     \/ \E p \in Payloads :
          LET ct == RedirectContentType(p.contentType, contentType)
          IN /\ StoreStl1(ct, p)
             /\ lastReq' = Body(Declared(Simple("redirect", "ok"), p.contentType),
                                p.bytes)
             /\ contentType' = ct
  /\ UNCHANGED <<req, combos, configPairs, configTag, ci, fi, enc, attempt,
                 nEncode>>

\* the export or translation submission as sent: the configuration is set
\* on the URL's search parameters (271-291, 386-409, 506-529)
SubmitSent1(answer) ==
  Request("submit", answer,
          IF hasConfigurationParam
            THEN URLSearchParamsToString(
                   <<"c","o","n","f","i","g","u","r","a","t","i","o","n">>,
                   configurationString)
            ELSE <<>>,
          <<>>,
          IF req.combineParts THEN "absent" ELSE "list",
          IF req.combineParts THEN <<>> ELSE req.partId)

\* the submission (266-301 STEP and SOLIDWORKS of a part, 386-420 the other
\* formats of a part, 506-540 combine)
Submit1 ==
  /\ pc = "submit"
  /\ cnt' = [cnt EXCEPT !.submit = @ + 1]
  /\ \/ \E st \in ProviderErrorStatus :
          /\ FailUnit(st,
                      IF ~req.combineParts /\ IsExportEndpoint(fmtOf(fi))
                        THEN "Failed to start export"
                        ELSE "Failed to start translation",
                      req.combineParts \/ ~IsExportEndpoint(fmtOf(fi)))
          /\ lastReq' = Answered(SubmitSent1("notok"), st)
          /\ UNCHANGED attempt
     \/ /\ attempt' = 0
        /\ pc' = "poll"
        /\ lastReq' = SubmitSent1("ok")
        /\ UNCHANGED <<unit, response>>
  /\ UNCHANGED <<req, combos, configPairs, configTag, ci, fi, enc, contentType,
                 zip, nEncode>>

\* the error texts of the three polling loops (304-383, 422-501, 542-618)
ViaExport == ~req.combineParts /\ IsExportEndpoint(fmtOf(fi))
TimeoutError1 == IF ViaExport THEN "Export timeout" ELSE "Translation timeout"

\* one turn of a polling loop (306-371, 424-489, 544-606)
Poll1 ==
  /\ pc = "poll"
  /\ LoopGuard(attempt)
  /\ cnt' = [cnt EXCEPT !.poll = @ + 1]
  /\ \/ \E st \in ProviderErrorStatus :
          /\ FailUnit(st, IF ViaExport THEN "Failed to read export status"
                                       ELSE "Failed to read translation status",
                      FALSE)
          /\ lastReq' = Answered(Simple("poll", "notok"), st)
          /\ UNCHANGED attempt
     \/ \E fr \in FailureReasons :
          /\ pc' = "responded"
          /\ response' = [ErrorResponse(500, IF ViaExport THEN "Export failed"
                                                          ELSE "Translation failed",
                                         FALSE)
                           EXCEPT !.reason = FailureText(fr)]
          /\ unit' = [unit EXCEPT ![cur] = "failed"]
          /\ lastReq' = [Simple("poll", "FAILED") EXCEPT !.failureReason = fr]
          /\ UNCHANGED attempt
     \/ /\ pc' = "download"
        /\ lastReq' = Simple("poll", "DONE")
        /\ UNCHANGED <<attempt, unit, response>>
     \/ /\ AfterLoop1("empty", TimeoutError1)
        /\ lastReq' = Simple("poll", "DONE0")
        /\ UNCHANGED attempt
     \/ /\ attempt' = attempt + 1
        /\ lastReq' = Simple("poll", "ACTIVE")
        /\ UNCHANGED <<pc, unit, response>>
  /\ UNCHANGED <<req, combos, configPairs, configTag, ci, fi, enc, contentType,
                 zip, nEncode>>

\* the loop condition fails (372-383, 490-501, 607-618)
LoopExit1 ==
  /\ pc = "poll"
  /\ ~LoopGuard(attempt)
  /\ AfterLoop1("running", TimeoutError1)
  /\ UNCHANGED <<req, combos, configPairs, configTag, ci, fi, enc, attempt,
                 contentType, zip, cnt, nEncode, lastReq>>

\* the fetch of the result and the entry written for it, always under the
\* format's extension (329-359, 447-477, 567-594)
Download1 ==
  /\ pc = "download"
  /\ cnt' = [cnt EXCEPT !.download = @ + 1]
  /\ \/ \E st \in ProviderErrorStatus :
          /\ FailUnit(st, "Failed to download file", FALSE)
          /\ lastReq' = Answered(Simple("download", "notok"), st)
          /\ UNCHANGED zip
     \/ \E p \in Payloads :
          /\ lastReq' = Fetched(Simple("download", "ok"), p)
          /\ zip' = ZipFile(zip, EntryName1(extForFormat1(fmtOf(fi))),
                            IF p.valid THEN "container" ELSE "plain", cur)
          /\ AfterLoop1("stored", TimeoutError1)
  /\ UNCHANGED <<req, combos, configPairs, configTag, ci, fi, enc, attempt,
                 contentType, nEncode>>

\* zip.generateAsync and the archive response (623-633)
Generate1 ==
  /\ pc = "generate"
  /\ pc' = "responded"
  /\ response' = ArchiveResponse(zip)
  /\ UNCHANGED <<req, combos, configPairs, configTag, ci, fi, enc, attempt,
                 contentType, zip, unit, cnt, nEncode, lastReq>>

NextFirst ==
  \/ Validate1
  \/ GetWorkspace1
  \/ ListParts1
  \/ NextCombo1
  \/ NextFormat1
  \/ StlRequest1
  \/ StlRedirect1
  \/ Submit1
  \/ Poll1
  \/ LoopExit1
  \/ Download1
  \/ Generate1

SpecFirst == Init /\ [][NextFirst]_vars

(***************************************************************************)
(* Properties of the export request handler                                *)
(***************************************************************************)
Units == DOMAIN unit
Ended(u) == unit[u] \in {"stored", "empty"}
InUnit == pc \in {"stl", "redirect", "submit", "poll", "download"}
HasEntry(z, u) == \E e \in z : e.unit = u

C2_ArchiveOnlyAfterAllUnits ==
  /\ response.kind = "archive" => pc = "responded" /\ \A u \in Units : Ended(u)
  /\ (pc = "responded" /\ \E u \in Units : ~Ended(u)) => response.kind = "error"
  /\ pc # "responded" => response.kind = "none"

\* C2 witness: an archive returned for a request of two units
C2_Witness ==
  /\ response.kind = "archive"
  /\ NUnits = 2
  /\ \A u \in Units : Ended(u)

\* C3: while every status poll answers a non-terminal state the handler
\* issues one poll per attempt, never more than 90; after the 90th the only
\* step left is the timeout failure (status 408), which is produced only
\* with exactly 90 polls issued and nothing downloaded.
C3_NinetyPollsThenTimeout ==
  /\ [](cnt.poll <= maxAttempts)
  /\ [](pc = "poll" => cnt.poll = attempt)
  /\ [](response.error = "Translation timeout" =>
          /\ cnt.poll = maxAttempts
          /\ cnt.download = 0
          /\ response.status = 408
          /\ unit[cur] = "failed")
  /\ [][(pc = "poll" /\ attempt = maxAttempts) =>
          (response'.error = "Translation timeout" /\ cnt' = cnt)]_vars

\* C3 witness: a unit of a combine-scope request timed out after 90 polls
C3_Witness ==
  /\ response.error = "Translation timeout"
  /\ cnt.poll = 90
  /\ req.combineParts

C5_AsStated ==
  response.kind = "archive" =>
    /\ Cardinality(response.entries)
         = Cardinality({u \in Units : unit[u] = "stored"})
    /\ \A u \in Units : unit[u] = "stored" => HasEntry(response.entries, u)

\* C6 as stated: no unit writes its entry under a name that another unit of
\* the request has used: an entry once written is never replaced.
C6_AsStated ==
  [][\A e \in zip : \E e2 \in zip' : e2.name = e.name /\ e2.unit = e.unit]_vars

\* C7: a poll answering DONE with no result id ends the unit as a success
\* without output: nothing is downloaded, no entry is written, no response
\* is produced and the handler is back at the loop over the formats.
C7_ZeroResultIsSuccess ==
  /\ lastReq = Simple("poll", "DONE0") =>
       /\ pc = "format"
       /\ response.kind = "none"
       /\ unit[cur] = "empty"
       /\ cnt.download = 0
  /\ \A u \in Units : unit[u] = "empty" => ~HasEntry(zip, u)

\* C7 witness: the first of two units ended with a zero-result DONE
C7_Witness ==
  /\ lastReq = Simple("poll", "DONE0")
  /\ NUnits = 2
  /\ cur = 1
  /\ unit[1] = "empty"

\* C8: when the provider rejects the configuration encoding call the handler
\* has returned an error response, and no unit of that combination or of a
\* later one was started (no export, submission or poll request).
C8_EncodingRejectionAborts ==
  lastReq = Simple("encode", "notok") =>
    /\ pc = "responded"
    /\ response.kind = "error"
    /\ cnt = NoCount
    /\ \A u \in Units : u > (ci - 1) * Len(formats) => unit[u] = "unstarted"

\* C8 witness: the encoding of the second combination is rejected after the
\* unit of the first one was stored
C8_Witness ==
  /\ lastReq = Simple("encode", "notok")
  /\ ci = 2
  /\ NUnits = 2
  /\ unit[1] = "stored"
  /\ response.kind = "error"

\* C9: with configuration parameters the encoding call has been issued
\* exactly once per combination begun, before any request of a unit of the
\* combination, and every unit of the combination uses that one result;
\* without configuration parameters it is never issued.
C9_EncodeOncePerCombination ==
  /\ ~hasConfig => nEncode = 0 /\ enc = NoEncoding
  /\ (hasConfig /\ pc = "encode") => nEncode = ci - 1
  /\ (hasConfig /\ (InUnit \/ pc = "format")) =>
       nEncode = ci /\ enc = EncodingOf(configPairs)
  /\ lastReq.kind = "stl" => lastReq.query = enc.queryParam
  /\ lastReq.kind = "submit" => lastReq.configuration = enc.encodedId
  /\ response.kind = "archive" =>
       nEncode = (IF hasConfig THEN Len(combos) ELSE 0)

\* C9 witness: two formats of one combination were exported with one
\* encoding call
C9_Witness ==
  /\ hasConfig
  /\ Len(formats) = 2
  /\ response.kind = "archive"
  /\ nEncode = 1
  /\ \A u \in Units : unit[u] = "stored"

\* C10 as stated: a translation submission carries the configuration only
\* as the encoded id in its body and never in the URL query, a synchronous
\* STL request only as the query token, and neither carries one when the
\* configuration is empty.
C10_AsStated ==
  /\ lastReq.kind = "submit" =>
       /\ lastReq.query = <<>>
       /\ (Len(configPairs) > 0) = (lastReq.configuration # <<>>)
  /\ lastReq.kind = "stl" =>
       /\ lastReq.configuration = <<>>
       /\ (Len(configPairs) > 0) = (lastReq.query # <<>>)

\* C11 (as amended): a 307 answer without location header ends the unit in
\* a failure with no second request; otherwise the target is fetched exactly
\* once, with the request's authorization header; a target answer that is
\* not ok is a failure; an ok answer stores the unit's entry, and the content
\* type used is the one the target answer declares or, when it declares
\* none, the one the 307 answer declared.
C11_RedirectFollowedOnce ==
  /\ [](lastReq.answer = "noLocation" =>
          /\ pc = "responded"
          /\ response = ErrorResponse(500, "No redirect URL for STL", FALSE)
          /\ unit[cur] = "failed"
          /\ cnt.redirect = 0)
  /\ [](pc = "redirect" => lastReq.answer = "redirect" /\ cnt.redirect = 0)
  /\ [](cnt.redirect > 0 =>
          /\ cnt.redirect = 1
          /\ cnt.stl = 1
          /\ lastReq.kind = "redirect"
          /\ lastReq.auth = req.auth)
  /\ []((lastReq.kind = "redirect" /\ lastReq.answer = "notok") =>
          /\ pc = "responded"
          /\ response.error = "STL redirect failed"
          /\ response.status \in ProviderErrorStatus
          /\ unit[cur] = "failed"
          /\ ~HasEntry(zip, cur))
  /\ []((lastReq.kind = "redirect" /\ lastReq.answer = "ok") =>
          /\ pc = "format"
          /\ unit[cur] = "stored"
          /\ HasEntry(zip, cur)
          /\ (lastReq.declared # <<>> => contentType = lastReq.declared))
  /\ [][(pc = "redirect" /\ lastReq'.answer = "ok" /\ lastReq'.declared = <<>>)
          => contentType' = contentType]_vars

\* C11 witness: the target of a redirect answered ok without a content type
\* after the 307 answer had declared a zip content type
C11_Witness ==
  /\ lastReq.kind = "redirect"
  /\ lastReq.answer = "ok"
  /\ lastReq.declared = <<>>
  /\ contentType = ctZip
  /\ unit[cur] = "stored"

\* C11 as stated: after a followed redirect the content type used is the one
\* the answer of the redirect target declares.
C11_AsStated ==
  (lastReq.kind = "redirect" /\ lastReq.answer = "ok") =>
    contentType = lastReq.declared

\* the provider requests of a unit
UnitRequests == {"stl", "redirect", "submit", "poll", "download"}
\* the requests whose failure response includes the provider's body text
WithDetails == {"stl", "redirect", "submit"}
\* the last request of the running unit got a status that is not ok
NotOk == lastReq.kind \in UnitRequests /\ lastReq.answer = "notok"

C13_FailedCarriesReason ==
  /\ []((lastReq.kind = "poll" /\ lastReq.answer = "FAILED") =>
          /\ pc = "responded"
          /\ unit[cur] = "failed"
          /\ response.kind = "error"
          /\ response.status = 500
          /\ response.error = "Translation failed"
          /\ (lastReq.failureReason # <<>> =>
                response.reason = lastReq.failureReason)
          /\ (lastReq.failureReason = <<>> => response.reason = sUnknown)
          /\ cnt.poll = attempt + 1
          /\ cnt.download = 0
          /\ ~HasEntry(zip, cur))
  /\ [](response.error = "Translation failed" => lastReq.answer = "FAILED")
  /\ [][~(lastReq.kind = "poll" /\ lastReq.answer = "FAILED")]_vars

\* C13 witness: the second poll of the second unit answered FAILED with a
\* reason, after the first unit was stored
C13_Witness ==
  /\ lastReq.kind = "poll"
  /\ lastReq.answer = "FAILED"
  /\ lastReq.failureReason = sBadGeometry
  /\ response.reason = sBadGeometry
  /\ cnt.poll = 2
  /\ cur = 2
  /\ unit[1] = "stored"

\* C14: the outcome of an exhausted polling loop and the outcome of a FAILED
\* answer differ in status and in message: a timeout is status 408 with the
\* timeout message, produced only after 90 polls that all answered a
\* non-terminal state, and a FAILED answer is status 500 with the failure
\* message.
C14_TimeoutDistinctFromFailed ==
  /\ response.error = "Translation timeout" =>
       /\ response.status = 408
       /\ lastReq = Simple("poll", "ACTIVE")
       /\ attempt = maxAttempts
       /\ cnt.poll = maxAttempts
  /\ lastReq.answer = "FAILED" =>
       /\ response.status = 500
       /\ response.error = "Translation failed"
  /\ response.error = "Translation failed" => lastReq.answer = "FAILED"

\* C14 witness: a unit of a single-part request ran into the timeout
C14_Witness ==
  /\ response.status = 408
  /\ response.error = "Translation timeout"
  /\ attempt = maxAttempts
  /\ ~req.combineParts
  /\ unit[cur] = "failed"

\* C15: a request without authorization header, without documentId, without
\* elementId, or whose formats is absent or not an array is answered by an
\* error (401 without the header, else 400) straight from the validation: no
\* provider request is issued, no encoding call, and nothing is ever written
\* to an archive.
C15_InvalidRequestRejected ==
  (~req.auth \/ ~req.documentId \/ ~req.elementId \/ req.formatsKind # "array") =>
    /\ pc \in {"validate", "responded"}
    /\ lastReq = NoRequest
    /\ cnt = NoCount
    /\ nEncode = 0
    /\ zip = {}
    /\ pc = "responded" =>
         /\ response.kind = "error"
         /\ response.status = (IF req.auth THEN 400 ELSE 401)
         /\ response.error = (IF req.auth THEN "Missing required parameters"
                                          ELSE "Missing authorization header")

\* C15 witness: a request with its header and identifiers whose formats is
\* not an array was rejected with status 400
C15_Witness ==
  /\ req.auth /\ req.documentId /\ req.elementId
  /\ req.formatsKind = "notArray"
  /\ pc = "responded"
  /\ response.status = 400

\* C16 as stated: a request whose formats is an empty array is rejected by
\* the validation: no workspace lookup, no encoding call, no archive
\* response, and the response is an error.
C16_AsStated ==
  (req.formatsKind = "array" /\ Len(req.formats) = 0) =>
    /\ pc \in {"validate", "responded"}
    /\ lastReq = NoRequest
    /\ nEncode = 0
    /\ response.kind # "archive"

\* C17 as stated: a single-part request without part id is rejected before
\* any provider request, and no STL request or translation submission is
\* issued for it.
C17_AsStated ==
  (~req.combineParts /\ Len(req.partId) = 0) =>
    /\ pc \in {"validate", "responded"}
    /\ lastReq = NoRequest
    /\ cnt.stl = 0
    /\ cnt.submit = 0
    /\ response.kind # "archive"

\* the format of the running unit is STL in some letter case
UnitIsStl == toLowerCase(formats[fi]) = sStlExt

\* C18: a unit whose format is STL, in any letter case, issues only the
\* synchronous STL request (and its redirect) and never a submission, poll
\* or download; a unit of another format issues only submission, polls and
\* download and never the STL request; a unit that stored its entry has
\* issued the one request of its protocol.
C18_OneProtocolPerUnit ==
  (ci >= 1 /\ fi >= 1) =>
    /\ UnitIsStl =>
         /\ cnt.submit = 0 /\ cnt.poll = 0 /\ cnt.download = 0
         /\ lastReq.kind \in {"none", "stl", "redirect"}
         /\ pc \notin {"submit", "poll", "download"}
    /\ ~UnitIsStl =>
         /\ cnt.stl = 0 /\ cnt.redirect = 0
         /\ lastReq.kind \in {"none", "submit", "poll", "download"}
         /\ pc \notin {"stl", "redirect"}
    /\ (lastReq.kind # "none" /\ unit[cur] = "stored") =>
         IF UnitIsStl
           THEN cnt.stl = 1
           ELSE cnt.submit = 1 /\ cnt.poll >= 1 /\ cnt.download = 1

\* C18 witness: of the formats stl and STEP of one request the first was
\* exported synchronously and the second by a translation
C18_Witness ==
  /\ formats = <<fmtStl, fmtStep>>
  /\ fi = 2
  /\ unit[1] = "stored"
  /\ unit[2] = "stored"
  /\ cnt.submit = 1
  /\ cnt.download = 1
  /\ cnt.stl = 0

\* C19 as stated: a translation submission of a single-part request carries
\* part identifiers, among them the requested part id, and a submission of a
\* combine-scope request carries none.
C19_AsStated ==
  lastReq.kind = "submit" =>
    IF req.combineParts
      THEN lastReq.partIds = "absent" /\ lastReq.partId = <<>>
      ELSE /\ lastReq.partIds # "absent"
           /\ lastReq.partId = req.partId
           /\ lastReq.partId # <<>>

\* the names of C20
sFrameBracketStl ==
  <<"F","r","a","m","e"," ","-"," ","B","r","a","c","k","e","t",".","s","t","l">>
sFrameBracketZip ==
  <<"F","r","a","m","e"," ","-"," ","B","r","a","c","k","e","t",".","z","i","p">>
\* the entries the running unit has in the archive
EntriesOf(u) == {e \in zip : e.unit = u}
\* the answer that delivered the STL payload is a container: the content
\* type in use is the zip one, or the body begins with the bytes of "PK"
StlAnswerIsContainer ==
  \/ contentType = ctZip
  \/ (Len(lastReq.bytes) >= 2 /\ lastReq.bytes[1] = 80 /\ lastReq.bytes[2] = 75)

\* C20: in single-part scope with an empty configuration the entry of a unit
\* is named "studio - part.extension"; for studio Frame, part Bracket and
\* format STL the unit's one entry is Frame - Bracket.zip when the payload is
\* a container (by content type or by its first two bytes) and
\* Frame - Bracket.stl when it is not, whatever the payload.
C20_SinglePartEntryName ==
  (~req.combineParts /\ Len(configPairs) = 0 /\ ci >= 1 /\ fi >= 1
     /\ lastReq.answer = "ok") =>
    /\ (lastReq.kind \in {"stl", "redirect"} /\ req.partName = sBracket) =>
         /\ unit[cur] = "stored"
         /\ EntriesOf(cur) # {}
         /\ \A e \in EntriesOf(cur) :
              e.name = (IF StlAnswerIsContainer THEN sFrameBracketZip
                                               ELSE sFrameBracketStl)
    /\ (lastReq.kind = "download" /\ unit[cur] = "stored") =>
         /\ EntriesOf(cur) # {}
         /\ \A e \in EntriesOf(cur) :
              e.name = req.elementName \o <<" ","-"," ">> \o req.partName
                         \o <<".">> \o (IF formats[fi] = fmtStep THEN <<"s","t","e","p">>
                                        ELSE <<"i","g","s">>)

\* C20 witness: the STL payload of Frame / Bracket came without content type
\* and begins with PK, and is stored as Frame - Bracket.zip
C20_Witness ==
  /\ ~req.combineParts
  /\ Len(configPairs) = 0
  /\ lastReq.kind = "stl"
  /\ lastReq.answer = "ok"
  /\ contentType = ctNone
  /\ \E e \in zip : e.name = sFrameBracketZip

\* C21 as stated: in combine scope the name of every archive entry begins
\* with the studio name followed by " - Combined".
C21_AsStated ==
  req.combineParts =>
    \A e \in zip :
      startsWith(e.name,
                 req.elementName \o <<" ","-"," ","C","o","m","b","i","n","e","d">>)

\* the texts of C22
sTagWidth50 == <<"W","i","d","t","h"," ","="," ","5","0">>
sTagWidthColor ==
  sTagWidth50 \o <<" ","|"," ","C","o","l","o","r"," ","="," ","r","e","d">>
s50mm == <<"5","0"," ","m","m">>
\* the request's options are one parameter Width in mm with the value 50
OneMeasure ==
  /\ Len(req.configOptions) = 1
  /\ req.configOptions[1].values = << NumVal(50) >>
  /\ req.configOptions[1].unit = sMm

\* C22: the tag of a combination is the items "name = bare value" of its
\* parameters in their order, joined by " | " (Width 50 mm gives
\* "Width = 50", with Color red "Width = 50 | Color = red"); the value passed
\* to the encoder carries the unit of a numeric value ("50 mm"); and the name
\* of an entry is the base name followed by " - tag." exactly when the
\* combination has parameters, and by "." alone otherwise.
C22_ConfigTag ==
  (ci >= 1 /\ pc \notin {"validate", "workspace"}) =>
    /\ (Len(configPairs) > 0) = (Len(req.configOptions) > 0)
    /\ OneMeasure =>
         /\ configTag = sTagWidth50
         /\ configPairs[1].parameterValue = s50mm
    /\ req.configOptions = TwoOptions =>
         /\ configTag = sTagWidthColor
         /\ configPairs[1].parameterValue = s50mm
         /\ configPairs[2].parameterValue = sRed
    /\ fi >= 1 =>
         \A e \in EntriesOf(cur) :
           IF Len(req.configOptions) > 0
             THEN startsWith(e.name, base \o <<" ","-"," ">> \o configTag \o <<".">>)
             ELSE startsWith(e.name, base \o <<".">>)

\* C22 witness: the entry of the combination Width 50 mm, Color red
C22_Witness ==
  /\ req.configOptions = TwoOptions
  /\ nEncode = 1
  /\ \E e \in zip :
       e.name = sFrame \o <<" ","-"," ">> \o sBracket \o <<" ","-"," ">>
                  \o sTagWidthColor \o <<".","s","t","e","p">>

(***************************************************************************)
(* The helpers of helpers.ts applied to arguments of their own: one call   *)
(* per behaviour, req holding the arguments and response the value         *)
(* returned.                                                               *)
(***************************************************************************)
\* a container holds at most MaxEntries entries
MaxEntries == 3
\* the options of a call have at most MaxParams parameters
MaxParams == 3

nPlateStep == sFrame \o sSep \o <<"P","l","a","t","e",".","s","t","e","p">>
nFrameStep == sFrame \o <<".","s","t","e","p">>

\* the entries a container is made of
ContainerEntries ==
  { File(nPlateStep), File(nBracketStep), File(nPlateStp), File(nFrameStep),
    File(nBracketIgs), File(nReadme), Dir(<<"o","u","t","/">>) }

\* containers: entry lists without repetition, in any order
ContainerLists ==
  {q \in SeqsUpTo(ContainerEntries, MaxEntries) :
     \A i, j \in 1..Len(q) : q[i] = q[j] => i = j}

\* calls of pickZipEntryForPart (route.ts 922-926)
PickCalls ==
  [fn            : {"pickZipEntryForPart"},
   files         : ContainerLists,
   extCandidates : {<<sStep, sStp>>, << <<"i","g","s">> >>},
   partName      : {<<>>, sBracket},
   elementName   : {<<>>, sFrame}]

\* candidate lists of one parameter: pairwise distinct values
ValueLists ==
  { <<>>, << NumVal(1) >>, << NumVal(1), NumVal(2) >>, << NumVal(2), NumVal(1) >>,
    << NumVal(1), StrVal(<<"a">>), NumVal(3) >> }

\* calls of the expansion of the configuration options (route.ts 703-708)
CombosCalls ==
  [fn            : {"combos"},
   configOptions : {[i \in 1..Len(q) |-> Option(<<"k">>, FALSE, <<>>, q[i], <<>>)] :
                      q \in SeqsUpTo(ValueLists, MaxParams)}]

InitHelpers ==
  /\ req \in PickCalls \cup CombosCalls
  /\ pc = "call"
  /\ response = <<>>
  /\ combos = <<>>
  /\ configPairs = <<>>
  /\ configTag = <<>>
  /\ ci = 0
  /\ fi = 0
  /\ enc = NoEncoding
  /\ attempt = 0
  /\ contentType = <<>>
  /\ zip = {}
  /\ unit = <<>>
  /\ cnt = NoCount
  /\ nEncode = 0
  /\ lastReq = [kind |-> "none"]

\* const entry = await pickZipEntryForPart(inner, { extCandidates, partName,
\* elementName })
CallPick ==
  /\ pc = "call"
  /\ req.fn = "pickZipEntryForPart"
  /\ response' = pickZipEntryForPart(req.files, req.extCandidates, req.partName,
                                     req.elementName)
  /\ pc' = "returned"
  /\ UNCHANGED <<req, combos, configPairs, configTag, ci, fi, enc, attempt,
                 contentType, zip, unit, cnt, nEncode, lastReq>>

\* const combos = hasConfig ? cartesianProduct(valueArrays) : [[]]
CallCombos ==
  /\ pc = "call"
  /\ req.fn = "combos"
  /\ combos' = CombosOf(req.configOptions)
  /\ pc' = "returned"
  /\ UNCHANGED <<req, configPairs, configTag, ci, fi, enc, attempt, contentType,
                 zip, response, unit, cnt, nEncode, lastReq>>

NextHelpers ==
  \/ CallPick
  \/ CallCombos

SpecHelpers == InitHelpers /\ [][NextHelpers]_vars

\* pickZipEntryForPart has returned
Picked == pc = "returned" /\ req.fn = "pickZipEntryForPart"
\* positions of the non-directory entries of the container of the call
FilePositions == {i \in 1..Len(req.files) : ~req.files[i].dir}
\* the name of the entry at a position, without its path, in lower case
LowerBaseName(i) == toLowerCase(BaseName(req.files[i].name))
\* positions of the files ending with an expected extension
Candidates ==
  {i \in FilePositions :
     \E k \in 1..Len(req.extCandidates) :
       endsWith(LowerBaseName(i), <<".">> \o req.extCandidates[k])}

\* C23: when exactly one file of the container ends with an expected
\* extension it is the one selected; when none does and the container has
\* exactly one file, that file is selected whatever its name; and a call
\* for STEP counts a file ending with .stp, in any letter case, as a
\* candidate like one ending with .step.
C23_SingleCandidateSelected ==
  Picked =>
    /\ Cardinality(Candidates) = 1 =>
         \A i \in Candidates : response = << req.files[i] >>
    /\ (Candidates = {} /\ Cardinality(FilePositions) = 1) =>
         \A i \in FilePositions : response = << req.files[i] >>
    /\ (req.extCandidates = <<sStep, sStp>> /\ Cardinality(FilePositions) > 1
          /\ \E i \in FilePositions :
               /\ req.files[i] = File(nPlateStp)
               /\ \A j \in FilePositions \ {i} :
                    req.files[j].name \in {nReadme, nBracketIgs}) =>
         response = << File(nPlateStp) >>

\* C23 witness: of a directory, a text file and Frame - Plate.STP a call for
\* STEP has selected the last
C23_Witness ==
  /\ Picked
  /\ req.files = << Dir(<<"o","u","t","/">>), File(nReadme), File(nPlateStp) >>
  /\ req.extCandidates = <<sStep, sStp>>
  /\ response = << File(nPlateStp) >>

\* the normalized name of the entry at a position
NormName(i) == normalizeName(BaseName(req.files[i].name))
\* the least position of a non-empty set of positions
FirstOf(S) == CHOOSE i \in S : \A j \in S : i <= j
\* candidates starting with the normalized 'studio - part' prefix
WithPrefix ==
  IF Len(req.elementName) > 0 /\ Len(req.partName) > 0
    THEN {i \in Candidates :
            startsWith(NormName(i),
                       normalizeName(req.elementName \o sSep \o req.partName))}
    ELSE {}
\* candidates containing the normalized part name
WithPart ==
  IF Len(req.partName) > 0
    THEN {i \in Candidates : includes(NormName(i), normalizeName(req.partName))}
    ELSE {}
\* candidates containing the normalized studio name
WithStudio ==
  IF Len(req.elementName) > 0
    THEN {i \in Candidates : includes(NormName(i), normalizeName(req.elementName))}
    ELSE {}
\* the position the priority prefix, part name, studio name, first selects
ByPriority ==
  IF WithPrefix # {} THEN FirstOf(WithPrefix)
  ELSE IF WithPart # {} THEN FirstOf(WithPart)
  ELSE IF WithStudio # {} THEN FirstOf(WithStudio)
  ELSE FirstOf(Candidates)

\* C24 as stated: when several files end with an expected extension, the one
\* selected is the first starting with the normalized 'studio - part'
\* prefix, failing that the first containing the normalized part name,
\* failing that the first containing the normalized studio name, failing
\* that the first candidate, whichever of the two names are present.
C24_AsStated ==
  (Picked /\ Cardinality(Candidates) > 1) =>
    response = << req.files[ByPriority] >>

\* C24 with both names present: the priority is the one followed
C24_BothNamesPresent ==
  (Picked /\ Cardinality(Candidates) > 1
     /\ Len(req.elementName) > 0 /\ Len(req.partName) > 0) =>
    response = << req.files[ByPriority] >>

\* the payload of a translation result has been fetched in single-part scope
\* and it opens as a container
FetchedContainer ==
  /\ lastReq.kind = "download"
  /\ lastReq.answer = "ok"
  /\ ~req.combineParts
  /\ lastReq.bytes = <<80, 75, 3, 4>>
\* positions of the files of the fetched container
FetchedFiles == {i \in 1..Len(lastReq.files) : ~lastReq.files[i].dir}
\* the extensions expected for the format of the current unit
ExpectedExts ==
  IF extForFormat(fmtOf(fi)) = sStep THEN {sStep, sStp}
  ELSE {extForFormat(fmtOf(fi))}
\* positions of the files of the fetched container ending with one of them
FetchedCandidates ==
  {i \in FetchedFiles :
     \E e \in ExpectedExts :
       endsWith(toLowerCase(BaseName(lastReq.files[i].name)), <<".">> \o e)}
\* no entry can be selected from the fetched container
CannotSelect ==
  \/ FetchedFiles = {}
  \/ FetchedCandidates = {} /\ Cardinality(FetchedFiles) > 1

\* C25: when the container fetched for a unit has no file, or has several
\* files none of which ends with an expected extension, the handler answers
\* 500 'Could not locate ... inside translator zip', the unit has failed and
\* no archive entry has been written for it.
C25_NoSelectionIsFailure ==
  (FetchedContainer /\ CannotSelect) =>
    /\ pc = "responded"
    /\ response.status = 500
    /\ response.error = "Could not locate file inside translator zip"
    /\ unit[cur] = "failed"
    /\ ~HasEntry(zip, cur)

\* C25 witness: a container holding readme.txt and notes.txt was fetched for
\* a unit and the request was answered with the extraction failure
C25_Witness ==
  /\ FetchedContainer
  /\ lastReq.files = << File(nReadme), File(nNotes) >>
  /\ response.status = 500
  /\ response.error = "Could not locate file inside translator zip"
  /\ unit[cur] = "failed"

\* the content type names a zip archive
NamesZip(ct) == includes(toLowerCase(ct), <<"z","i","p">>)
\* the first two bytes are 'P' 'K'
StartsPK(bytes) == Len(bytes) >= 2 /\ bytes[1] = 80 /\ bytes[2] = 75
\* the entries written for the current unit
CurEntries == {e \in zip : e.unit = cur}

\* C26 as stated: a fetched payload is treated as a container exactly when
\* its content type names zip or its first two bytes are 'PK': the entry of
\* a synchronous STL unit is named .zip exactly then, and the entry of an
\* asynchronous unit holds the payload as a plain file exactly when it is
\* not one.
C26_AsStated ==
  /\ (lastReq.kind \in {"stl", "redirect"} /\ lastReq.answer = "ok") =>
       \A e \in CurEntries :
         endsWith(e.name, <<".">> \o sZipExt)
           <=> (NamesZip(contentType) \/ StartsPK(lastReq.bytes))
  /\ (lastReq.kind = "download" /\ lastReq.answer = "ok") =>
       \A e \in CurEntries :
         e.content = "plain"
           <=> ~(NamesZip(lastReq.declared) \/ StartsPK(lastReq.bytes))

\* the unit is a synchronous STL export: units are numbered combination by
\* combination, format by format
StlUnit(u) == IsStl(fmtOf(((u - 1) % Len(formats)) + 1))

\* C27 as stated: an archive entry holds raw container bytes under a .zip
\* name only for a synchronous STL unit; the entry of an asynchronous unit,
\* in single-part and in combine scope, is stored under the format's
\* extension and holds a plain payload or the inner entry extracted.
C27_AsStated ==
  \A e \in zip :
    ~StlUnit(e.unit) =>
      /\ e.content \in {"plain", "inner"}
      /\ ~endsWith(e.name, <<".">> \o sZipExt)

\* C27 in single-part scope: the entry of an asynchronous unit is never the
\* raw container
C27_SinglePart ==
  ~req.combineParts =>
    \A e \in zip :
      ~StlUnit(e.unit) =>
        /\ e.content \in {"plain", "inner"}
        /\ ~endsWith(e.name, <<".">> \o sZipExt)

\* the expansion of the configuration options has returned
Expanded == pc = "returned" /\ req.fn = "combos"
\* the number of parameters of the call
NParams == Len(req.configOptions)
\* the candidate values of parameter i
ValuesOf(i) == {req.configOptions[i].values[k] :
                  k \in 1..Len(req.configOptions[i].values)}
\* c1 * ... * cn for the first n parameters
RECURSIVE ProductOfCounts(_)
ProductOfCounts(n) ==
  IF n = 0 THEN 1
  ELSE ProductOfCounts(n - 1) * Len(req.configOptions[n].values)
\* the tuples of the cartesian product of the candidate lists
Tuples ==
  {t \in [1..NParams -> UNION {ValuesOf(i) : i \in 1..NParams}] :
     \A i \in 1..NParams : t[i] \in ValuesOf(i)}

\* C28: for N >= 1 parameters with c1..cN pairwise distinct candidate values
\* the expansion has exactly c1*...*cN combinations, no two equal, each of
\* length N with position i taken from parameter i, and every tuple of the
\* cartesian product is among them; for no parameter it is the one empty
\* tuple.
C28_FullCartesianCoverage ==
  Expanded =>
    /\ NParams = 0 => combos = << <<>> >>
    /\ NParams > 0 =>
         /\ Len(combos) = ProductOfCounts(NParams)
         /\ \A j, k \in 1..Len(combos) : combos[j] = combos[k] => j = k
         /\ \A k \in 1..Len(combos) :
              /\ Len(combos[k]) = NParams
              /\ \A i \in 1..NParams : combos[k][i] \in ValuesOf(i)
         /\ \A t \in Tuples : \E k \in 1..Len(combos) : combos[k] = t

\* C28 witness: three parameters with 2, 3 and 2 candidate values have been
\* expanded into 12 combinations
C28_Witness ==
  /\ Expanded
  /\ NParams = 3
  /\ Len(req.configOptions[1].values) = 2
  /\ Len(req.configOptions[2].values) = 3
  /\ Len(req.configOptions[3].values) = 2
  /\ Len(combos) = 12

\* C28 witness for no parameter: the expansion is the one empty tuple
C28_WitnessEmpty ==
  /\ Expanded
  /\ NParams = 0
  /\ combos = << <<>> >>

\* C29 as stated: the units of a request are dispatched concurrently, so
\* while a unit waits in its polling sleep every other unit of the request
\* has been started.
C29_AsStated ==
  pc = "poll" => \A u \in Units : unit[u] # "unstarted"

\* C29 in the code: the units run one after another, a unit is started only
\* when every unit before it has ended, and at most one unit runs at a time
C29_OneUnitAtATime ==
  \A u \in Units :
    /\ unit[u] # "unstarted" =>
         \A v \in Units : v < u => unit[v] \notin {"unstarted", "running"}
    /\ unit[u] = "running" =>
         \A v \in Units : v > u => unit[v] = "unstarted"

(***************************************************************************)
(* One export run of the client: exportMutation of the page component.     *)
(* req holds the selection of the run, combos the cleaned job list, unit   *)
(* the status, blob and error of every record of exportJobs (blob and      *)
(* error are the number of the call whose request delivered them), zip the set processedJobs, ci *)
(* the number of processExport calls made by cleanedJobs.map, response the *)
(* state of every call, cnt the export requests issued per job id.         *)
(***************************************************************************)
\* a run has at most MaxJobs selected parts
MaxJobs == 3

\* getJobId of components/helpers
getJobId(elementId, partId) == elementId \o <<"-">> \o partId

Part(elementId, partId) == [elementId |-> elementId, partId |-> partId]
\* the parts of the document; two of them have the same job id
Parts ==
  { Part(<<"a">>, <<"b">>), Part(<<"a">>, <<"b","-","c">>),
    Part(<<"a","-","b">>, <<"c">>), Part(<<"d">>, <<"b">>) }
ElementIds == {q.elementId : q \in Parts}

\* the selections of a run: the selected parts, the formats ticked and the
\* studios combined
ExportRuns ==
  [fn              : {"exportMutation"},
   selectedParts   : SeqsUpTo(Parts, MaxJobs),
   selectedFormats : {<<sSTL>>, <<sSTL, sSTEP>>},
   combineByStudio : SUBSET ElementIds]

\* const jobs: one job per selected part
jobs ==
  [i \in 1..Len(req.selectedParts) |->
     [id          |-> getJobId(req.selectedParts[i].elementId,
                               req.selectedParts[i].partId),
      elementId   |-> req.selectedParts[i].elementId,
      partId      |-> req.selectedParts[i].partId,
      formats     |-> req.selectedFormats]]

\* jobs.reduce: of a combined studio only the first job is kept
RECURSIVE cleanReduce(_, _)
cleanReduce(acc, i) ==
  IF i > Len(jobs) THEN acc
  ELSE IF jobs[i].elementId \in req.combineByStudio
    THEN IF \E k \in 1..Len(acc) : acc[k].elementId = jobs[i].elementId
           THEN cleanReduce(acc, i + 1)
           ELSE cleanReduce(Append(acc, jobs[i]), i + 1)
  ELSE cleanReduce(Append(acc, jobs[i]), i + 1)
cleanedJobs == cleanReduce(<<>>, 1)

\* the job ids of the records of exportJobs
JobIds == {combos[i].id : i \in 1..Len(combos)}

\* variant: every job id counts as processed
AlreadyProcessedAlways(id) == TRUE
\* variant: no job id counts as processed
AlreadyProcessedNever(id) == FALSE
\* processedJobs.has(job.id)
AlreadyProcessed(id) == id \in zip

\* { ...j, status, blob } and { ...j, status, error }: the fields of patch
\* replace those of the record
Spread(j, patch) ==
  [f \in DOMAIN j |-> IF f \in DOMAIN patch THEN patch[f] ELSE j[f]]

\* variant: the records are not selected by their id
SetStatusAll(id, from, patch) ==
  [i \in 1..Len(unit) |->
     IF unit[i].status \in from THEN Spread(unit[i], patch) ELSE unit[i]]

\* setExportJobs(prev => prev.map(j => j.id === id && test(j.status)
\*   ? { ...j, ...patch } : j))
SetStatus(id, from, patch) ==
  [i \in 1..Len(unit) |->
     IF combos[i].id = id /\ unit[i].status \in from
       THEN Spread(unit[i], patch) ELSE unit[i]]

InitClient ==
  /\ req \in ExportRuns
  /\ pc = "mutate"
  /\ combos = <<>>
  /\ unit = <<>>
  /\ zip = {}
  /\ ci = 0
  /\ response = <<>>
  /\ cnt = <<>>
  /\ configPairs = <<>>
  /\ configTag = <<>>
  /\ fi = 0
  /\ enc = NoEncoding
  /\ attempt = 0
  /\ contentType = <<>>
  /\ nEncode = 0
  /\ lastReq = [kind |-> "none"]

\* mutationFn up to the creation of processedJobs: the guards, the job list,
\* setExportJobs(cleanedJobs)
StartExport ==
  /\ pc = "mutate"
  /\ IF Len(req.selectedParts) = 0
       THEN /\ pc' = "rejected"
            /\ UNCHANGED <<combos, unit, response, cnt>>
       ELSE /\ pc' = "map"
            /\ combos' = cleanedJobs
            /\ unit' = [i \in 1..Len(cleanedJobs) |->
                          [status |-> "pending", blob |-> 0, error |-> 0]]
            /\ response' = [i \in 1..Len(cleanedJobs) |-> "none"]
            /\ cnt' = [id \in {cleanedJobs[i].id : i \in 1..Len(cleanedJobs)} |-> 0]
  /\ UNCHANGED <<req, configPairs, configTag, ci, fi, enc, attempt, contentType,
                 zip, nEncode, lastReq>>

\* one call of processExport by cleanedJobs.map, up to its first await: the
\* early return, or processedJobs.add, the status 'exporting' and the export
\* request of exportPart
ProcessExport ==
  /\ pc = "map"
  /\ LET job == combos[ci + 1] IN
       IF AlreadyProcessed(job.id)
         THEN /\ response' = [response EXCEPT ![ci + 1] = "returned"]
              /\ UNCHANGED <<zip, unit, cnt>>
         ELSE /\ zip' = zip \cup {job.id}
              /\ unit' = SetStatus(job.id, {"pending"}, [status |-> "exporting"])
              /\ cnt' = [cnt EXCEPT ![job.id] = @ + 1]
              /\ response' = [response EXCEPT ![ci + 1] = "inFlight"]
  /\ ci' = ci + 1
  /\ pc' = IF ci + 1 = Len(combos) THEN "await" ELSE "map"
  /\ UNCHANGED <<req, combos, configPairs, configTag, fi, enc, attempt,
                 contentType, nEncode, lastReq>>

\* exportPart resolves with the blob: status 'done' for the records of the
\* job id that are not done
ExportResolved ==
  /\ pc = "await"
  /\ \E k \in 1..Len(combos) :
       /\ response[k] = "inFlight"
       /\ response' = [response EXCEPT ![k] = "ok"]
       /\ unit' = SetStatus(combos[k].id, {"pending", "exporting", "failed"},
                             [status |-> "done", blob |-> k])
  /\ UNCHANGED <<req, combos, configPairs, configTag, pc, ci, fi, enc, attempt,
                 contentType, zip, cnt, nEncode, lastReq>>

\* exportPart throws: status 'failed' for the records of the job id that are
\* not done
ExportRejected ==
  /\ pc = "await"
  /\ \E k \in 1..Len(combos) :
       /\ response[k] = "inFlight"
       /\ response' = [response EXCEPT ![k] = "error"]
       /\ unit' = SetStatus(combos[k].id, {"pending", "exporting", "failed"},
                             [status |-> "failed", error |-> k])
  /\ UNCHANGED <<req, combos, configPairs, configTag, pc, ci, fi, enc, attempt,
                 contentType, zip, cnt, nEncode, lastReq>>

\* Promise.all settles when no call is waiting for its request
AllSettled ==
  /\ pc = "await"
  /\ \A k \in 1..Len(combos) : response[k] # "inFlight"
  /\ pc' = "settled"
  /\ UNCHANGED <<req, combos, configPairs, configTag, ci, fi, enc, attempt,
                 contentType, zip, response, unit, cnt, nEncode, lastReq>>

NextClient ==
  \/ StartExport
  \/ ProcessExport
  \/ ExportResolved
  \/ ExportRejected
  \/ AllSettled

SpecClient == InitClient /\ [][NextClient]_vars

\* the calls of processExport that issued the request of a job id
Issuers(id) ==
  {k \in 1..Len(combos) : combos[k].id = id /\ response[k] \notin {"none", "returned"}}

\* C30: within a run at most one export request is issued for a job id; a
\* call of processExport for a job id that was processed before issues none;
\* and when the run has settled every record of exportJobs is done if the
\* one request of its job id succeeded and failed if it did not.
C30_OneRequestPerJobId ==
  pc \in {"map", "await", "settled"} =>
    /\ \A id \in JobIds :
         /\ cnt[id] <= 1
         /\ Cardinality(Issuers(id)) = cnt[id]
    /\ \A k \in 1..ci :
         (\E j \in 1..(k - 1) : combos[j].id = combos[k].id) =>
           response[k] = "returned"
    /\ pc = "settled" =>
         \A i \in 1..Len(unit) :
           /\ cnt[combos[i].id] = 1
           /\ \A k \in Issuers(combos[i].id) :
                unit[i].status = IF response[k] = "ok" THEN "done" ELSE "failed"

\* C30 witness: two records share a job id, the second call returned without
\* a request, and both records are done after the one request succeeded
C30_Witness ==
  /\ pc = "settled"
  /\ Len(combos) >= 2
  /\ combos[1].id = combos[2].id
  /\ response[1] = "ok"
  /\ response[2] = "returned"
  /\ cnt[combos[1].id] = 1
  /\ unit[1].status = "done"
  /\ unit[2].status = "done"

(***************************************************************************)
(* The export runs of the page of app/page.tsx: startExport, the replies   *)
(* of its export requests and the Back to Export control.  req holds       *)
(* allParts and selectedFormats, pc is currentStep, unit is exportJobs,    *)
(* response the set of export requests in flight, cnt the number of runs   *)
(* started.                                                                *)
(***************************************************************************)
\* the Export control is used at most MaxRuns times
MaxRuns == 2

\* getJobId of components/helpers with the format
getJobIdFormat(elementId, partId, format) ==
  elementId \o <<"-">> \o partId \o <<"-">> \o format

pAB == Part(<<"a">>, <<"b">>)
pAC == Part(<<"a">>, <<"c">>)
pDB == Part(<<"d">>, <<"b">>)

\* what the page holds when the export step is shown: the parts loaded and
\* the formats ticked
PageStates ==
  [fn : {"startExport"},
   allParts : {<<>>, <<pAB>>, <<pAB, pAC>>, <<pAB, pDB>>, <<pAB, pAB>>},
   selectedFormats : {<<sSTL>>}]
  \cup
  [fn : {"startExport"},
   allParts : {<<pAB>>, <<pAC, pAB>>},
   selectedFormats : {<<sSTL, sSTEP>>}]

\* const jobs of startExport: for part of allParts, for format of
\* selectedFormats
pageJobs ==
  LET nf == Len(req.selectedFormats) IN
  [k \in 1..(Len(req.allParts) * nf) |->
     LET part   == req.allParts[((k - 1) \div nf) + 1]
         format == req.selectedFormats[((k - 1) % nf) + 1]
     IN [id        |-> getJobIdFormat(part.elementId, part.partId, format),
         elementId |-> part.elementId,
         partId    |-> part.partId,
         format    |-> format,
         status    |-> "pending",
         blob      |-> 0,
         error     |-> 0]]

\* allParts.find((p) => p.elementId === job.elementId)
FindPart(job) ==
  LET hit == FirstIdx([i \in 1..Len(req.allParts) |->
                         req.allParts[i].elementId = job.elementId])
  IN req.allParts[hit]

\* the export request processExport issues for job k of a run: the body
\* fetch sends, with the job it was issued for and the run
ExportRequest(run, k) ==
  LET job  == pageJobs[k]
      part == FindPart(job)
  IN [run |-> run, job |-> k, id |-> job.id,
      elementId |-> part.elementId, partId |-> part.partId,
      format |-> job.format]

\* j.status !== "done"
OpenStatus == {"pending", "exporting", "failed"}

InitPage ==
  /\ req \in PageStates
  /\ pc = "export"
  /\ unit = <<>>
  /\ response = {}
  /\ cnt = 0
  /\ combos = <<>>
  /\ zip = {}
  /\ ci = 0
  /\ configPairs = <<>>
  /\ configTag = <<>>
  /\ fi = 0
  /\ enc = NoEncoding
  /\ attempt = 0
  /\ contentType = <<>>
  /\ nEncode = 0
  /\ lastReq = [kind |-> "none"]

\* startExport up to the first await of every processExport call: the
\* guards, setExportJobs(jobs), setCurrentStep('results'), and for every job
\* whose id is not in processedJobs the status 'exporting' and the fetch
startExport ==
  /\ pc = "export"
  /\ cnt < MaxRuns
  /\ IF Len(req.allParts) = 0 \/ Len(req.selectedFormats) = 0
       THEN UNCHANGED <<pc, unit, response, cnt>>
       ELSE /\ cnt' = cnt + 1
            /\ pc' = "results"
            /\ unit' = [k \in 1..Len(pageJobs) |->
                          [pageJobs[k] EXCEPT !.status = "exporting"]]
            /\ response' = response \cup
                 {ExportRequest(cnt + 1, k) :
                    k \in {k \in 1..Len(pageJobs) :
                             \A j \in 1..(k - 1) : pageJobs[j].id # pageJobs[k].id}}
  /\ UNCHANGED <<req, combos, configPairs, configTag, ci, fi, enc, attempt,
                 contentType, zip, nEncode, lastReq>>

\* response.ok: status 'done' and the blob for the records of the job id
ExportOk ==
  /\ \E r \in response :
       /\ response' = response \ {r}
       /\ unit' = [i \in 1..Len(unit) |->
                     IF unit[i].id = r.id /\ unit[i].status \in OpenStatus
                       THEN [unit[i] EXCEPT !.status = "done", !.blob = r.run]
                       ELSE unit[i]]
  /\ UNCHANGED <<req, combos, configPairs, configTag, pc, ci, fi, enc, attempt,
                 contentType, zip, cnt, nEncode, lastReq>>

\* the request fails or is answered not ok: status 'failed' and the error for
\* the records of the job id
ExportFailed ==
  /\ \E r \in response :
       /\ response' = response \ {r}
       /\ unit' = [i \in 1..Len(unit) |->
                     IF unit[i].id = r.id /\ unit[i].status \in OpenStatus
                       THEN [unit[i] EXCEPT !.status = "failed", !.error = r.run]
                       ELSE unit[i]]
  /\ UNCHANGED <<req, combos, configPairs, configTag, pc, ci, fi, enc, attempt,
                 contentType, zip, cnt, nEncode, lastReq>>

\* onBackToExport: setCurrentStep('export')
BackToExport ==
  /\ pc = "results"
  /\ pc' = "export"
  /\ UNCHANGED <<req, combos, configPairs, configTag, ci, fi, enc, attempt,
                 contentType, zip, response, unit, cnt, nEncode, lastReq>>

NextPage ==
  \/ startExport
  \/ ExportOk
  \/ ExportFailed
  \/ BackToExport

SpecPage == InitPage /\ [][NextPage]_vars

\* the steps of a job status the lifecycle allows
Lifecycle ==
  { <<"pending", "exporting">>, <<"exporting", "done">>, <<"exporting", "failed">> }

\* C31 as stated: in every step that does not start a run, a job record
\* whose status changes moves along pending -> exporting -> done or
\* pending -> exporting -> failed, so that a status done or failed does not
\* change again.
C31_AsStated ==
  [][ cnt' = cnt =>
        \A i \in 1..Len(unit) :
          unit'[i].status # unit[i].status =>
            <<unit[i].status, unit'[i].status>> \in Lifecycle ]_vars

\* C31 for one run: while no second run has been started the status of a
\* record moves along the lifecycle only
C31_SingleRun ==
  [][ (cnt' = cnt /\ cnt <= 1) =>
        \A i \in 1..Len(unit) :
          unit'[i].status # unit[i].status =>
            <<unit[i].status, unit'[i].status>> \in Lifecycle ]_vars

\* C32: a status update made for one job (to exporting by its processExport
\* call, to done or failed by the reply of its request) leaves the status,
\* blob and error of every record with a different id as they were, and
\* leaves the request of every other call as it was: the failure of a job
\* cancels no request of a sibling.
C32_SiblingsUntouched ==
  [][ /\ \A k \in 1..Len(combos) :
           (response[k] = "inFlight" /\ response'[k] \in {"ok", "error"}) =>
             /\ \A i \in 1..Len(unit) :
                  combos[i].id # combos[k].id => unit'[i] = unit[i]
             /\ \A j \in 1..Len(combos) : j # k => response'[j] = response[j]
      /\ (pc = "map" /\ ci' = ci + 1) =>
           \A i \in 1..Len(unit) :
             combos[i].id # combos[ci + 1].id => unit'[i] = unit[i] ]_vars

\* C32 witness: the request of the first job failed while the second job,
\* of another id, is exporting with its request in flight
C32_Witness ==
  /\ pc = "await"
  /\ Len(combos) >= 2
  /\ combos[1].id # combos[2].id
  /\ unit[1].status = "failed"
  /\ unit[1].error = 1
  /\ response[1] = "error"
  /\ unit[2] = [status |-> "exporting", blob |-> 0, error |-> 0]
  /\ response[2] = "inFlight"

\* C33 as stated: when a single-part unit under a non-empty configuration is
\* about to submit its translation job, the provider request issued last for
\* the unit is the part listing under the active configuration encoding,
\* from which the identifier to submit is taken.
C33_AsStated ==
  (pc = "submit" /\ ~req.combineParts /\ Len(configPairs) > 0) =>
    /\ lastReq.kind = "parts"
    /\ lastReq.answer = "ok"
    /\ lastReq.configuration = enc.encodedId

\* the job list of the run has been built
JobsBuilt == req.fn = "exportMutation" /\ pc \in {"map", "await", "settled"}
\* the exposed units of work of the run: (studio, part, format) for a studio
\* exported part by part, and (studio, first selected part, format) for a
\* studio with combine active
ExposedUnits ==
  {<<req.selectedParts[i].elementId, req.selectedParts[i].partId,
     req.selectedFormats[f]>> :
     i \in {i \in 1..Len(req.selectedParts) :
              req.selectedParts[i].elementId \in req.combineByStudio =>
                \A j \in 1..(i - 1) :
                  req.selectedParts[j].elementId # req.selectedParts[i].elementId},
     f \in 1..Len(req.selectedFormats)}
\* the records of the job list that stand for a unit of work
RecordsOf(u) ==
  {i \in 1..Len(combos) :
     /\ combos[i].elementId = u[1]
     /\ combos[i].partId = u[2]
     /\ combos[i].formats = << u[3] >>}
\* no part is selected twice
DistinctParts ==
  \A i, j \in 1..Len(req.selectedParts) :
    req.selectedParts[i] = req.selectedParts[j] => i = j

\* C34 as stated: for a selection of distinct parts the job list holds
\* exactly one record per exposed unit of work, a record standing for one
\* part (or one combined studio) and one format, and no other record.
C34_AsStated ==
  (JobsBuilt /\ DistinctParts) =>
    /\ \A u \in ExposedUnits : Cardinality(RecordsOf(u)) = 1
    /\ Len(combos) = Cardinality(ExposedUnits)

\* C34 for a single format: one record per part of a studio exported part by
\* part, one per combined studio, and no other record
C34_OneFormat ==
  (JobsBuilt /\ DistinctParts /\ Len(req.selectedFormats) = 1) =>
    /\ \A u \in ExposedUnits : Cardinality(RecordsOf(u)) = 1
    /\ Len(combos) = Cardinality(ExposedUnits)

\* the handler awaits every provider request, and every provider request
\* returns: the handler's next step is eventually taken
SpecLive == Spec /\ WF_vars(Next)

\* C35: given that every provider request returns, the handler eventually
\* returns a response; and a unit issues at most one submission, at most 90
\* polls and at most one download when it is asynchronous, and at most the
\* STL request and the fetch of its redirect when it is synchronous.
C35_HandlerResponds ==
  /\ <>(pc = "responded" /\ response.kind \in {"archive", "error"})
  /\ [](/\ cnt.submit <= 1
        /\ cnt.poll <= 90
        /\ cnt.download <= 1
        /\ cnt.stl <= 1
        /\ cnt.redirect <= 1)

\* C35 witness: of the two units of a request the first stored its entry and
\* the second was submitted once and polled 90 times, and the handler has
\* answered with the timeout
C35_Witness ==
  /\ pc = "responded"
  /\ response.kind = "error"
  /\ response.error = "Translation timeout"
  /\ NUnits = 2
  /\ unit[1] = "stored"
  /\ cnt.submit = 1
  /\ cnt.poll = 90
  /\ cnt.download = 0

\* every export request completes and every ready step of the run is taken
SpecClientLive == SpecClient /\ WF_vars(NextClient)

\* no record of exportJobs is pending or exporting: the Download All control
\* is not in its processing state
NoneProcessing ==
  \A i \in 1..Len(unit) : unit[i].status \in {"done", "failed"}

\* C36: once the job list of a run is built, given that every export request
\* completes, a state is reached from which on every job record is done or
\* failed, and the run settles.
C36_JobsFinish ==
  JobsBuilt ~> [](NoneProcessing /\ pc = "settled")

\* C36 witness: the run of three jobs has settled with a record done and a
\* record failed
C36_Witness ==
  /\ req.fn = "exportMutation"
  /\ pc = "settled"
  /\ Len(unit) = 3
  /\ NoneProcessing
  /\ \E i, j \in 1..Len(unit) : unit[i].status = "done" /\ unit[j].status = "failed"

\* C37 as stated: every export request in flight carries the elementId and
\* the partId of the job it was issued for.
C37_AsStated ==
  req.fn = "startExport" =>
    \A r \in response :
      /\ r.elementId = pageJobs[r.job].elementId
      /\ r.partId = pageJobs[r.job].partId

\* C37 for the studio: every export request carries the elementId of its job
C37_OwnStudio ==
  req.fn = "startExport" =>
    \A r \in response : r.elementId = pageJobs[r.job].elementId

(***************************************************************************)
(* The document selection of the page of src/unnamed/part_001, whose       *)
(* element lists are loaded by a cached query.  req holds the documents of *)
(* the account, pc is currentStep, lastReq is selectedDocument, zip the    *)
(* documents whose element list the query cache holds, response the        *)
(* documents whose element list is being fetched, combos is partStudios of *)
(* the last render, cnt the value of partStudios.length the effect ran     *)
(* for last, unit is selectedPartStudioIds.                                *)
(***************************************************************************)
Element(id, elementType) == [id |-> id, elementType |-> elementType]
sPARTSTUDIO == <<"P","A","R","T","S","T","U","D","I","O">>
sASSEMBLY == <<"A","S","S","E","M","B","L","Y">>

\* the element lists of the documents of the account
Accounts ==
  { [fn |-> "Page",
     elements |-> [d \in {"A", "B", "C"} |->
        CASE d = "A" -> << Element("a1", sPARTSTUDIO), Element("a2", sPARTSTUDIO),
                           Element("a3", sASSEMBLY) >>
          [] d = "B" -> << Element("b1", sPARTSTUDIO), Element("b2", sPARTSTUDIO) >>
          [] d = "C" -> third]] :
    third \in { <<>>, << Element("c1", sPARTSTUDIO) >>,
                << Element("c1", sASSEMBLY) >> } }
Documents == DOMAIN req.elements

NoDocument == [kind |-> "none"]
Document(d) == [kind |-> "document", id |-> d]

\* documentElements of the render: the data of the query of the selected
\* document, [] while there is none
documentElementsOf(selected, cache) ==
  IF selected.kind = "document" /\ selected.id \in cache
    THEN req.elements[selected.id]
    ELSE <<>>

\* documentElements.filter((element) => element.elementType === 'PARTSTUDIO')
partStudiosOf(selected, cache) ==
  LET els == documentElementsOf(selected, cache)
  IN SelectSeqIdx(els, [i \in 1..Len(els) |-> els[i].elementType = sPARTSTUDIO], 1)

\* the dependency list [partStudios.length] of the effect has changed
EffectRuns(studios, dep) == Len(studios) # dep

\* the render that follows a change of state and the effect after it:
\* if (partStudios.length > 0) setSelectedPartStudioIds(partStudios.map(id))
RenderAndEffect(selected, cache, ids) ==
  LET studios == partStudiosOf(selected, cache) IN
  /\ combos' = studios
  /\ cnt' = Len(studios)
  /\ unit' = IF EffectRuns(studios, cnt) /\ Len(studios) > 0
               THEN [i \in 1..Len(studios) |-> studios[i].id]
               ELSE ids

InitSelect ==
  /\ req \in Accounts
  /\ pc = "auth"
  /\ lastReq = NoDocument
  /\ zip = {}
  /\ response = {}
  /\ combos = <<>>
  /\ cnt = 0
  /\ unit = <<>>
  /\ ci = 0
  /\ configPairs = <<>>
  /\ configTag = <<>>
  /\ fi = 0
  /\ enc = NoEncoding
  /\ attempt = 0
  /\ contentType = <<>>
  /\ nEncode = 0

\* authMutation onSuccess: setCurrentStep('documents')
Connect ==
  /\ pc = "auth"
  /\ pc' = "documents"
  /\ UNCHANGED <<req, combos, configPairs, configTag, ci, fi, enc, attempt,
                 contentType, zip, response, unit, cnt, nEncode, lastReq>>

\* selectDocument: setSelectedDocument(document), setCurrentStep('export');
\* the query of the document's elements starts a fetch unless the cache
\* holds its data
selectDocument ==
  /\ pc = "documents"
  /\ \E d \in Documents :
       /\ lastReq' = Document(d)
       /\ response' = IF d \in zip THEN response ELSE response \cup {d}
       /\ RenderAndEffect(Document(d), zip, unit)
  /\ pc' = "export"
  /\ UNCHANGED <<req, configPairs, configTag, ci, fi, enc, attempt, contentType,
                 zip, nEncode>>

\* fetchDocumentElements resolves: the cache holds the data
ElementsLoaded ==
  /\ \E d \in response :
       /\ response' = response \ {d}
       /\ zip' = zip \cup {d}
       /\ RenderAndEffect(lastReq, zip \cup {d}, unit)
  /\ UNCHANGED <<req, configPairs, configTag, pc, ci, fi, enc, attempt,
                 contentType, nEncode, lastReq>>

\* fetchDocumentElements rejects: the query has no data
ElementsFailed ==
  /\ \E d \in response : response' = response \ {d}
  /\ UNCHANGED <<req, combos, configPairs, configTag, pc, ci, fi, enc, attempt,
                 contentType, zip, unit, cnt, nEncode, lastReq>>

\* onBackClick of the export step: setCurrentStep('documents')
BackToDocuments ==
  /\ pc = "export"
  /\ pc' = "documents"
  /\ UNCHANGED <<req, combos, configPairs, configTag, ci, fi, enc, attempt,
                 contentType, zip, response, unit, cnt, nEncode, lastReq>>

\* resetApp: setCurrentStep('auth'), setSelectedDocument(null),
\* setSelectedPartStudioIds([])
resetApp ==
  /\ pc = "documents"
  /\ pc' = "auth"
  /\ lastReq' = NoDocument
  /\ RenderAndEffect(NoDocument, zip, <<>>)
  /\ UNCHANGED <<req, configPairs, configTag, ci, fi, enc, attempt, contentType,
                 zip, response, nEncode>>

NextSelect ==
  \/ Connect
  \/ selectDocument
  \/ ElementsLoaded
  \/ ElementsFailed
  \/ BackToDocuments
  \/ resetApp

SpecSelect == InitSelect /\ [][NextSelect]_vars

\* the ids of the part studios of a document
StudioIdsOf(d) ==
  {req.elements[d][i].id :
     i \in {i \in 1..Len(req.elements[d]) :
              req.elements[d][i].elementType = sPARTSTUDIO}}

\* the export step shows the elements of the selected document
ElementsShown ==
  /\ req.fn = "Page"
  /\ pc = "export"
  /\ lastReq.kind = "document"
  /\ lastReq.id \in zip

\* C38 as stated: once the elements of the selected document are shown,
\* every id in selectedPartStudioIds is the id of a part studio of that
\* document.
C38_AsStated ==
  ElementsShown =>
    \A i \in 1..Len(unit) : unit[i] \in StudioIdsOf(lastReq.id)

\* C38 for a first selection: while the cache holds no other document, the
\* ids selected are those of the document shown
C38_FirstSelection ==
  (ElementsShown /\ zip = {lastReq.id}) =>
    \A i \in 1..Len(unit) : unit[i] \in StudioIdsOf(lastReq.id)

(***************************************************************************)
(* The document selection of the page of src/app/page.tsx, whose           *)
(* selectDocument loads the elements and the parts itself.  req holds the  *)
(* documents of the account, pc is currentStep, lastReq is                 *)
(* selectedDocument, combos is partStudios, unit is allParts, zip is       *)
(* isLoading, response the calls whose network answer is pending, cnt the  *)
(* number of calls started.                                                *)
(***************************************************************************)
MaxCalls == 3

\* the parts the parts listing of a studio answers with, mapped to
\* { partId, elementId: studio.id }
studioParts(studio) ==
  IF studio.id = "a1"
    THEN << Part(studio.id, "p1"), Part(studio.id, "p2") >>
    ELSE << Part(studio.id, "p1") >>

\* partsArrays.flat() where the listings of the studios in failed gave []
flatParts(studios, failed) ==
  LET RECURSIVE flat(_)
      flat(i) == IF i > Len(studios) THEN <<>>
                 ELSE (IF studios[i].id \in failed THEN <<>>
                       ELSE studioParts(studios[i])) \o flat(i + 1)
  IN flat(1)

AuthCall(n) == [id |-> n, fn |-> "authenticateAndLoadDocuments"]
SelectCall(n, d, at) == [id |-> n, fn |-> "selectDocument", doc |-> d, at |-> at]

InitLoad ==
  /\ req \in {[a EXCEPT !.fn = "Load"] : a \in Accounts}
  /\ pc = "auth"
  /\ lastReq = NoDocument
  /\ combos = <<>>
  /\ unit = <<>>
  /\ zip = FALSE
  /\ response = {}
  /\ cnt = 0
  /\ ci = 0
  /\ configPairs = <<>>
  /\ configTag = <<>>
  /\ fi = 0
  /\ enc = NoEncoding
  /\ attempt = 0
  /\ contentType = <<>>
  /\ nEncode = 0

\* authenticateAndLoadDocuments up to its fetch: setIsLoading(true)
authenticateAndLoadDocuments ==
  /\ pc = "auth"
  /\ ~zip
  /\ cnt < MaxCalls
  /\ zip' = TRUE
  /\ cnt' = cnt + 1
  /\ response' = response \cup {AuthCall(cnt + 1)}
  /\ UNCHANGED <<req, combos, configPairs, configTag, pc, ci, fi, enc, attempt,
                 contentType, unit, nEncode, lastReq>>

\* the documents request answers: setCurrentStep('documents') when ok,
\* a toast otherwise; finally setIsLoading(false)
DocumentsAnswered ==
  /\ \E c \in response, ok \in BOOLEAN :
       /\ c.fn = "authenticateAndLoadDocuments"
       /\ response' = response \ {c}
       /\ pc' = IF ok THEN "documents" ELSE pc
  /\ zip' = FALSE
  /\ UNCHANGED <<req, combos, configPairs, configTag, ci, fi, enc, attempt,
                 contentType, unit, cnt, nEncode, lastReq>>

\* selectDocument up to its first fetch: setSelectedDocument(document),
\* setIsLoading(true)
SelectDocument ==
  /\ pc = "documents"
  /\ cnt < MaxCalls
  /\ \E d \in Documents :
       /\ lastReq' = Document(d)
       /\ response' = response \cup {SelectCall(cnt + 1, d, "elements")}
  /\ zip' = TRUE
  /\ cnt' = cnt + 1
  /\ UNCHANGED <<req, combos, configPairs, configTag, pc, ci, fi, enc, attempt,
                 contentType, unit, nEncode>>

\* the elements request of a call answers: not ok throws (toast, finally
\* setIsLoading(false)); ok sets partStudios and starts the parts requests,
\* and with no studio Promise.all([]) resolves at once
ElementsAnswered ==
  /\ \E c \in response, ok \in BOOLEAN :
       /\ c.fn = "selectDocument"
       /\ c.at = "elements"
       /\ LET studios == partStudiosOf(Document(c.doc), {c.doc}) IN
          IF ~ok
            THEN /\ response' = response \ {c}
                 /\ zip' = FALSE
                 /\ UNCHANGED <<combos, unit, pc>>
            ELSE IF Len(studios) = 0
              THEN /\ response' = response \ {c}
                   /\ combos' = studios
                   /\ unit' = <<>>
                   /\ pc' = "export"
                   /\ zip' = FALSE
              ELSE /\ response' = (response \ {c})
                                    \cup {SelectCall(c.id, c.doc, "parts")}
                   /\ combos' = studios
                   /\ UNCHANGED <<unit, pc, zip>>
  /\ UNCHANGED <<req, configPairs, configTag, ci, fi, enc, attempt, contentType,
                 cnt, nEncode, lastReq>>

\* the parts requests of a call have all answered (a failed one gives []):
\* setAllParts(flatParts), setCurrentStep('export'), setIsLoading(false)
PartsAnswered ==
  /\ \E c \in response :
       /\ c.fn = "selectDocument"
       /\ c.at = "parts"
       /\ \E failed \in SUBSET StudioIdsOf(c.doc) :
            unit' = flatParts(partStudiosOf(Document(c.doc), {c.doc}), failed)
       /\ response' = response \ {c}
  /\ pc' = "export"
  /\ zip' = FALSE
  /\ UNCHANGED <<req, combos, configPairs, configTag, ci, fi, enc, attempt,
                 contentType, cnt, nEncode, lastReq>>

\* onBackClick of the export step: setCurrentStep('documents')
onBackClick ==
  /\ pc = "export"
  /\ pc' = "documents"
  /\ UNCHANGED <<req, combos, configPairs, configTag, ci, fi, enc, attempt,
                 contentType, zip, response, unit, cnt, nEncode, lastReq>>

\* resetApp (Back to Authentication): setCurrentStep('auth'),
\* setSelectedDocument(null), setPartStudios([]), setAllParts([])
ResetApp ==
  /\ pc = "documents"
  /\ pc' = "auth"
  /\ lastReq' = NoDocument
  /\ combos' = <<>>
  /\ unit' = <<>>
  /\ UNCHANGED <<req, configPairs, configTag, ci, fi, enc, attempt, contentType,
                 zip, response, cnt, nEncode>>

NextLoad ==
  \/ authenticateAndLoadDocuments
  \/ DocumentsAnswered
  \/ SelectDocument
  \/ ElementsAnswered
  \/ PartsAnswered
  \/ onBackClick
  \/ ResetApp

SpecLoad == InitLoad /\ [][NextLoad]_vars

\* C39 as stated: whenever currentStep is 'export' a document is selected
\* and allParts holds parts of that document only.
C39_AsStated ==
  (req.fn = "Load" /\ pc = "export") =>
    /\ lastReq.kind = "document"
    /\ \A i \in 1..Len(unit) : unit[i].elementId \in StudioIdsOf(lastReq.id)

=============================================================================
